---------------------------- MODULE Spec2Model ----------------------------
(***************************************************************************)
(* Geographic entity resolution and caching engine of the re_data          *)
(* dashboard: the state-scoped index cache (loadStateIndexes and its       *)
(* readers), the identifier normalizers, the index-driven Redfin payload   *)
(* reducer, the matching rule table with matchFeatureToData, the loader    *)
(* of the four data sources (loadDataWithCloudflare) with matchDataSmart,  *)
(* the unified index of UnifiedDataService, and the file cache of the      *)
(* dashboard's DataService.                                                *)
(*                                                                         *)
(* JavaScript strings are sequences of one-character strings, so that      *)
(* trimming, digit stripping, padding and parseInt are computed, not       *)
(* assumed.  A JavaScript value is a record [t, s, n]: t is its type tag,  *)
(* s the characters of a string, n the value of a number.                  *)
(***************************************************************************)
EXTENDS Integers, Sequences, FiniteSets, TLC

VARIABLES
  stateIndexCache,  \* Map<string, {counties, zips, tracts, loadTime}>
  calls,            \* caller -> the loadStateIndexes invocation it runs
  fetchCount,       \* state -> level -> number of fetch() calls issued (the mock fetcher's call count)
  settled,          \* history: states for which a loadStateIndexes call has returned since their last eviction
  red,              \* the running index-driven Redfin reduction (getRelevantRedfinIds + filterRedfinByRelevantIds)
  norm,             \* the pending/finished call of a normalizer
  mt,               \* the pending/finished call of the rule lookup or of matchFeatureToData
  uds,              \* the UnifiedDataService singleton, its running initialize() and its latest query
  ld,               \* the running/finished loadDataWithCloudflare call and its result
  lk,               \* the latest getRedfinId call and its result
  sm,               \* the latest matchDataSmart call and what it left
  dataService       \* the DataService singleton: its cache and the loads in flight

\* the variables of the index manager's cache, reduction and normalizers
cacheVars == <<stateIndexCache, calls, fetchCount, settled, red, norm>>

\* the variables of the other components
others == <<mt, uds, ld, lk, sm, dataService>>

vars == <<stateIndexCache, calls, fetchCount, settled, red, norm, mt, uds, ld, lk, sm, dataService>>

---------------------------------------------------------------------------
(* JavaScript values *)

Str(s) == [t |-> "str", s |-> s, n |-> 0]
Num(n) == [t |-> "num", s |-> <<>>, n |-> n]
NaN == [t |-> "nan", s |-> <<>>, n |-> 0]
Null == [t |-> "null", s |-> <<>>, n |-> 0]
Undefined == [t |-> "undef", s |-> <<>>, n |-> 0]

\* v is null or undefined (what ?. and a missing property test for)
IsNullish(v) == v.t \in {"null", "undef"}

\* !v
Falsy(v) ==
  \/ IsNullish(v)
  \/ v.t = "nan"
  \/ v.t = "num" /\ v.n = 0
  \/ v.t = "str" /\ v.s = <<>>

\* a === b (NaN equals nothing, itself included)
StrictEq(a, b) == a.t # "nan" /\ a = b

\* row[field], undefined when the row has no such column
Prop(row, field) == IF field \in DOMAIN row THEN row[field] ELSE Undefined

---------------------------------------------------------------------------
(* Strings *)

DigitChars == <<"0", "1", "2", "3", "4", "5", "6", "7", "8", "9">>

IsDigit(c) == \E i \in 1..10 : DigitChars[i] = c

DigitVal(c) == (CHOOSE i \in 1..10 : DigitChars[i] = c) - 1

IsSpace(c) == c = " "

RECURSIVE TrimStart(_)
TrimStart(s) ==
  IF s # <<>> /\ IsSpace(Head(s)) THEN TrimStart(Tail(s)) ELSE s

RECURSIVE TrimEnd(_)
TrimEnd(s) ==
  IF s # <<>> /\ IsSpace(s[Len(s)]) THEN TrimEnd(SubSeq(s, 1, Len(s) - 1)) ELSE s

\* String.prototype.trim
Trim(s) == TrimEnd(TrimStart(s))

\* s.replace(/\D/g, '')
StripNonDigits(s) == SelectSeq(s, IsDigit)

\* s.padStart(n, c)
RECURSIVE PadStart(_, _, _)
PadStart(s, n, c) == IF Len(s) >= n THEN s ELSE PadStart(<<c>> \o s, n, c)

\* s.slice(-n)
SliceLast(s, n) == IF Len(s) <= n THEN s ELSE SubSeq(s, Len(s) - n + 1, Len(s))

\* s.substring(1)
Substring1(s) == IF s = <<>> THEN s ELSE Tail(s)

\* s.includes(sub)
Includes(s, sub) ==
  \E i \in 0..(Len(s) - Len(sub)) : SubSeq(s, i + 1, i + Len(sub)) = sub

UpperChars == <<"A", "B", "C", "D", "E", "F", "G", "H", "I", "J", "K", "L", "M",
                "N", "O", "P", "Q", "R", "S", "T", "U", "V", "W", "X", "Y", "Z">>
LowerChars == <<"a", "b", "c", "d", "e", "f", "g", "h", "i", "j", "k", "l", "m",
                "n", "o", "p", "q", "r", "s", "t", "u", "v", "w", "x", "y", "z">>

LowerChar(c) ==
  IF \E i \in 1..26 : UpperChars[i] = c
  THEN LowerChars[CHOOSE i \in 1..26 : UpperChars[i] = c]
  ELSE c

\* s.toLowerCase()
ToLowerCase(s) == [i \in 1..Len(s) |-> LowerChar(s[i])]

\* the decimal digits of a natural number
RECURSIVE NatToString(_)
NatToString(n) ==
  IF n < 10 THEN <<DigitChars[n + 1]>>
  ELSE NatToString(n \div 10) \o <<DigitChars[(n % 10) + 1]>>

\* v.toString() for a string or a number (the callers exclude null and undefined)
ValueToString(v) ==
  CASE v.t = "str" -> v.s
    [] v.t = "num" -> IF v.n < 0 THEN <<"-">> \o NatToString(-v.n) ELSE NatToString(v.n)
    [] v.t = "nan" -> <<"N", "a", "N">>
    [] OTHER -> <<>>

\* the leading run of digits of s
RECURSIVE DigitPrefix(_)
DigitPrefix(s) ==
  IF s # <<>> /\ IsDigit(Head(s)) THEN <<Head(s)>> \o DigitPrefix(Tail(s)) ELSE <<>>

RECURSIVE DigitsToNat(_, _)
DigitsToNat(s, acc) ==
  IF s = <<>> THEN acc ELSE DigitsToNat(Tail(s), acc * 10 + DigitVal(Head(s)))

\* parseInt(s) of a string: leading white space, an optional sign, then digits
ParseIntString(s) ==
  LET t == TrimStart(s)
      neg == t # <<>> /\ Head(t) = "-"
      body == IF t # <<>> /\ Head(t) \in {"-", "+"} THEN Tail(t) ELSE t
      ds == DigitPrefix(body)
  IN  IF ds = <<>> THEN NaN
      ELSE Num(IF neg THEN -DigitsToNat(ds, 0) ELSE DigitsToNat(ds, 0))

\* parseInt(v): the argument is converted to a string first
\* (String(null) = "null" and String(undefined) = "undefined" parse to NaN)
ParseInt(v) ==
  CASE v.t = "str" -> ParseIntString(v.s)
    [] v.t = "num" -> v
    [] OTHER -> NaN

---------------------------------------------------------------------------
(* Normalization functions *)

\* normalizeZipCode without the replace(/\D/g, '') step
normalizeZipCode_NoStrip(zip) ==
  IF Falsy(zip) /\ ~StrictEq(zip, Num(0)) THEN <<>>
  ELSE PadStart(Trim(ValueToString(zip)), 5, "0")

\* improved_index_manager_nor_opt.ts normalizeZipCode: '' for a missing value,
\* otherwise the digits of the value left-padded to 5 with '0'
normalizeZipCode(zip) ==
  IF Falsy(zip) /\ ~StrictEq(zip, Num(0)) THEN <<>>
  ELSE PadStart(StripNonDigits(Trim(ValueToString(zip))), 5, "0")

\* improved_index_manager_nor_opt.ts normalizeCountyCode: the county part of a FIPS code
normalizeCountyCode(county) ==
  IF Falsy(county) /\ ~StrictEq(county, Num(0)) THEN <<>>
  ELSE LET cleanCounty == StripNonDigits(Trim(ValueToString(county)))
       IN  IF Len(cleanCounty) = 5 THEN SliceLast(cleanCounty, 3)
           ELSE PadStart(cleanCounty, 3, "0")

\* [...new Set(variations)]: first occurrences, in order
RECURSIVE Dedupe(_)
Dedupe(xs) ==
  IF xs = <<>> THEN <<>>
  ELSE LET init == Dedupe(SubSeq(xs, 1, Len(xs) - 1))
           last == xs[Len(xs)]
       IN  IF \E i \in 1..Len(init) : init[i] = last THEN init ELSE Append(init, last)

\* normalizeCountyId adding the trailing three characters of a 5-character id
normalizeCountyId_Trailing3(id, addStatePrefix) ==
  IF Falsy(id) THEN <<>>
  ELSE LET idStr == Trim(ValueToString(id))
           v3 == IF Len(idStr) = 3 /\ ~Falsy(addStatePrefix)
                 THEN <<ValueToString(addStatePrefix) \o idStr>> ELSE <<>>
           v4 == IF Len(idStr) = 4 THEN <<<<"0">> \o idStr>> ELSE <<>>
           v5 == IF Len(idStr) = 5 THEN <<SliceLast(idStr, 3)>> ELSE <<>>
       IN  Dedupe(<<idStr>> \o v3 \o v4 \o v5)

\* data_column_selections_tract_opt normalizeCountyId: the candidate forms of a county id
normalizeCountyId(id, addStatePrefix) ==
  IF Falsy(id) THEN <<>>
  ELSE LET idStr == Trim(ValueToString(id))
           v3 == IF Len(idStr) = 3 /\ ~Falsy(addStatePrefix)
                 THEN <<ValueToString(addStatePrefix) \o idStr>> ELSE <<>>
           v4 == IF Len(idStr) = 4 THEN <<<<"0">> \o idStr>> ELSE <<>>
           v5 == IF Len(idStr) = 5 THEN <<Substring1(idStr)>> ELSE <<>>
       IN  Dedupe(<<idStr>> \o v3 \o v4 \o v5)

---------------------------------------------------------------------------
(* Map<string, V> as the sequence of its [key, data] pairs in insertion order *)

MapHas(m, k) == \E i \in 1..Len(m) : m[i].key = k

MapGet(m, k) == m[CHOOSE i \in 1..Len(m) : m[i].key = k].data

MapKeys(m) == [i \in 1..Len(m) |-> m[i].key]

\* m.set(k, v): an existing key keeps its place
MapSet(m, k, v) ==
  IF MapHas(m, k)
  THEN [i \in 1..Len(m) |-> IF m[i].key = k THEN [key |-> k, data |-> v] ELSE m[i]]
  ELSE Append(m, [key |-> k, data |-> v])

\* Map.prototype.delete dropping every entry
MapDelete_All(m, k) == <<>>

\* m.delete(k)
MapDelete(m, k) == LET Keep(e) == e.key # k IN SelectSeq(m, Keep)

---------------------------------------------------------------------------
(* Column names read by the index manager *)

H_GEOID == <<"G", "E", "O", "I", "D">>
H_COUNTYFP == <<"C", "O", "U", "N", "T", "Y", "F", "P">>
H_NAME == <<"N", "A", "M", "E">>
H_NAMELSAD == <<"N", "A", "M", "E", "L", "S", "A", "D">>
H_region == <<"r", "e", "g", "i", "o", "n">>
H_table_id == <<"t", "a", "b", "l", "e", "_", "i", "d">>
H_fred_county_fips == <<"f", "r", "e", "d", "_", "c", "o", "u", "n", "t", "y", "_", "f", "i", "p", "s">>
H_ZIPCODE == <<"Z", "I", "P", "C", "O", "D", "E">>
H_zipcode == <<"z", "i", "p", "c", "o", "d", "e">>
H_zip_code == <<"z", "i", "p", "_", "c", "o", "d", "e">>
H_zip_code_clean == <<"z", "i", "p", "_", "c", "o", "d", "e", "_", "c", "l", "e", "a", "n">>
H_redfin_tableid_zip == <<"r", "e", "d", "f", "i", "n", "_", "t", "a", "b", "l", "e", "i", "d", "_", "z", "i", "p">>
H_redfin_county_name == <<"r", "e", "d", "f", "i", "n", "_", "c", "o", "u", "n", "t", "y", "_", "n", "a", "m", "e">>
H_county_name == <<"c", "o", "u", "n", "t", "y", "_", "n", "a", "m", "e">>
H_county_fips == <<"c", "o", "u", "n", "t", "y", "_", "f", "i", "p", "s">>

---------------------------------------------------------------------------
(* loadStateCSV: one index file of one state *)

\* A fetch outcome.  kind "throw": fetch() or response.text() rejects; "status":
\* a response whose ok is false; "ok": a response whose text is `text`.
\* A text is given split: the sequence of its lines, each the sequence of its
\* comma-separated cells.
Thrown == [kind |-> "throw", text |-> <<>>]
NotOk == [kind |-> "status", text |-> <<>>]
Ok(text) == [kind |-> "ok", text |-> text]
Pending == [kind |-> "pending", text |-> <<>>]

\* line.trim() is empty: the line holds no comma and only white space
IsBlankLine(line) == Len(line) = 0 \/ (Len(line) = 1 /\ Trim(line[1]) = <<>>)

NonBlank(line) == ~IsBlankLine(line)

\* the header test that selects the columns converted with parseInt
IsNumericHeader(header) ==
  \/ Includes(header, H_zipcode)
  \/ Includes(header, H_table_id)
  \/ Includes(header, <<"f", "i", "p", "s">>)
  \/ header = H_GEOID

\* the record of one data line: headers.forEach((header, index) => ...)
ParseLine(headers, values) ==
  [header \in {headers[i] : i \in 1..Len(headers)} |->
     LET index == CHOOSE i \in 1..Len(headers) :
                    /\ headers[i] = header
                    /\ \A j \in (i + 1)..Len(headers) : headers[j] # header
         value == IF index <= Len(values) THEN Trim(values[index]) ELSE <<>>
     IN  IF IsNumericHeader(header)
         THEN (IF value # <<>> THEN ParseIntString(value) ELSE Null)
         ELSE Str(value)]

\* loadStateCSV without its try/catch: a failed fetch or an empty file rejects
loadStateCSV_NoCatch(resp) ==
  IF resp.kind # "ok" \/ SelectSeq(resp.text, NonBlank) = <<>>
  THEN [status |-> "rejected", value |-> <<>>]
  ELSE LET lines == SelectSeq(resp.text, NonBlank)
           headers == [i \in 1..Len(lines[1]) |-> Trim(lines[1][i])]
       IN  [status |-> "fulfilled",
            value |-> [k \in 1..(Len(lines) - 1) |-> ParseLine(headers, lines[k + 1])]]

\* The settled promise of loadStateCSV(stateAbbrev, level) for a fetch outcome:
\* every failure (a thrown fetch, a non-OK status, a text without a header line,
\* whose lines[0].split throws) is caught and yields [].
loadStateCSV(resp) ==
  IF resp.kind # "ok" THEN [status |-> "fulfilled", value |-> <<>>]
  ELSE LET lines == SelectSeq(resp.text, NonBlank)
       IN  IF lines = <<>> THEN [status |-> "fulfilled", value |-> <<>>]
           ELSE LET headers == [i \in 1..Len(lines[1]) |-> Trim(lines[1][i])]
                IN  [status |-> "fulfilled",
                     value |-> [k \in 1..(Len(lines) - 1) |-> ParseLine(headers, lines[k + 1])]]

---------------------------------------------------------------------------
(* Lookups in the cached index *)

\* a || b
OrElse(a, b) == IF Falsy(a) THEN b ELSE a

\* v?.toString() === area
OptStringEq(v, area) == ~IsNullish(v) /\ ValueToString(v) = area

\* v?.toLowerCase().includes(area.toLowerCase()); the columns tested hold
\* strings (loadStateCSV converts none of them) or are missing
OptNameIncludes(v, area) ==
  v.t = "str" /\ Includes(ToLowerCase(v.s), ToLowerCase(area))

\* rows.find(test): the index of the first row passing the test, 0 for undefined
FindIndex(rows, Test(_)) ==
  IF \E i \in 1..Len(rows) : Test(rows[i])
  THEN CHOOSE i \in 1..Len(rows) : Test(rows[i]) /\ \A j \in 1..(i - 1) : ~Test(rows[j])
  ELSE 0

\* getRedfinId, level 'zip': exact match first, then normalized match
getRedfinIdZip(stateData, area) ==
  LET Exact(row) ==
        \/ OptStringEq(Prop(row, H_ZIPCODE), area)
        \/ StrictEq(Prop(row, H_ZIPCODE), ParseIntString(area))
        \/ OptStringEq(Prop(row, H_zipcode), area)
        \/ OptStringEq(Prop(row, H_zip_code), area)
      Normalized(row) == normalizeZipCode(Prop(row, H_ZIPCODE)) = normalizeZipCode(Str(area))
      exact == FindIndex(stateData.zips, Exact)
      found == IF exact # 0 THEN exact ELSE FindIndex(stateData.zips, Normalized)
  IN  IF found # 0 /\ ~Falsy(Prop(stateData.zips[found], H_redfin_tableid_zip))
      THEN ParseInt(Prop(stateData.zips[found], H_redfin_tableid_zip))
      ELSE Null

\* getRedfinId, level 'county': GEOID, then fred_county_fips, then name
\* substring, then normalized county code
getRedfinIdCounty(stateData, area) ==
  LET ByGeoid(row) == StrictEq(Prop(row, H_GEOID), Str(area))
      ByFips(row) == StrictEq(Prop(row, H_fred_county_fips), Str(area))
      ByName(row) ==
        \/ OptNameIncludes(Prop(row, H_NAME), area)
        \/ OptNameIncludes(Prop(row, H_NAMELSAD), area)
        \/ OptNameIncludes(Prop(row, H_region), area)
      ByCode(row) ==
        normalizeCountyCode(OrElse(Prop(row, H_COUNTYFP), Prop(row, H_GEOID)))
          = normalizeCountyCode(Str(area))
      rows == stateData.counties
      TableId(i) == ParseInt(Prop(rows[i], H_table_id))
  IN  IF FindIndex(rows, ByGeoid) # 0 THEN TableId(FindIndex(rows, ByGeoid))
      ELSE IF FindIndex(rows, ByFips) # 0 THEN TableId(FindIndex(rows, ByFips))
      ELSE IF FindIndex(rows, ByName) # 0 THEN TableId(FindIndex(rows, ByName))
      ELSE IF FindIndex(rows, ByCode) # 0 THEN TableId(FindIndex(rows, ByCode))
      ELSE Null

\* getRedfinId answering -1 instead of null when the state has no entry
getRedfinId_NoEntrySentinel(m, stateAbbrev, area, level) ==
  IF ~MapHas(m, stateAbbrev) THEN Num(-1)
  ELSE CASE level = "zip" -> getRedfinIdZip(MapGet(m, stateAbbrev), area)
         [] level = "county" -> getRedfinIdCounty(MapGet(m, stateAbbrev), area)
         [] OTHER -> Null

\* getRedfinId(stateAbbrev, area, level) on cache m: null without an entry
getRedfinId(m, stateAbbrev, area, level) ==
  IF ~MapHas(m, stateAbbrev) THEN Null
  ELSE CASE level = "zip" -> getRedfinIdZip(MapGet(m, stateAbbrev), area)
         [] level = "county" -> getRedfinIdCounty(MapGet(m, stateAbbrev), area)
         [] OTHER -> Null

\* getTractsInZip(stateAbbrev, zipcode)
getTractsInZip(m, stateAbbrev, zipcode) ==
  IF ~MapHas(m, stateAbbrev) THEN <<>>
  ELSE LET InZip(row) ==
             \/ StrictEq(Prop(row, H_zip_code_clean), Str(zipcode))
             \/ StrictEq(Prop(row, H_zipcode), Str(zipcode))
             \/ StrictEq(Prop(row, H_ZIPCODE), Str(zipcode))
       IN  SelectSeq(MapGet(m, stateAbbrev).tracts, InZip)

\* getZipsInCounty(stateAbbrev, countyName)
getZipsInCounty(m, stateAbbrev, countyName) ==
  IF ~MapHas(m, stateAbbrev) THEN <<>>
  ELSE LET InCounty(row) ==
             \/ OptNameIncludes(Prop(row, H_redfin_county_name), countyName)
             \/ OptNameIncludes(Prop(row, H_county_name), countyName)
       IN  SelectSeq(MapGet(m, stateAbbrev).zips, InCounty)

\* row[field] && row[field] !== '' && row[field] !== 'null'
HasTableId(row, field) ==
  ~Falsy(Prop(row, field)) /\ Prop(row, field) # Str(<<"n", "u", "l", "l">>)

\* checkStateCoverage(stateAbbrev, level): availability, row total and rows with a Redfin id
checkStateCoverage(m, stateAbbrev, level) ==
  IF ~MapHas(m, stateAbbrev) THEN [available |-> FALSE, total |-> 0, withRedfin |-> 0]
  ELSE LET stateData == MapGet(m, stateAbbrev)
           ZipHasId(row) == HasTableId(row, H_redfin_tableid_zip)
           CountyHasId(row) == HasTableId(row, H_table_id)
       IN  CASE level = "zip" ->
                  [available |-> Len(stateData.zips) > 0, total |-> Len(stateData.zips),
                   withRedfin |-> Len(SelectSeq(stateData.zips, ZipHasId))]
             [] level = "county" ->
                  [available |-> Len(stateData.counties) > 0, total |-> Len(stateData.counties),
                   withRedfin |-> Len(SelectSeq(stateData.counties, CountyHasId))]
             [] OTHER ->
                  [available |-> Len(stateData.tracts) > 0, total |-> Len(stateData.tracts),
                   withRedfin |-> 0]

\* getLoadedStates()
getLoadedStates(m) == MapKeys(m)

\* getCacheStats()
getCacheStats(m) ==
  [cachedStates |-> Len(m),
   details |-> [i \in 1..Len(m) |->
                  [state |-> m[i].key, counties |-> Len(m[i].data.counties),
                   zips |-> Len(m[i].data.zips), tracts |-> Len(m[i].data.tracts),
                   loadTime |-> m[i].data.loadTime]]]

---------------------------------------------------------------------------
(* The index-driven Redfin reduction *)

\* geoJsonFeatures.slice(0, 50)
SampleLimit == 50

\* the identifier getRelevantRedfinIds reads from a feature's properties
\* (undefined when the level has none)
FeatureAreaId(props, level) ==
  CASE level = "zip" ->
         OrElse(OrElse(Prop(props, H_ZIPCODE), Prop(props, H_zipcode)), Prop(props, H_zip_code))
    [] level = "county" ->
         OrElse(OrElse(Prop(props, H_GEOID), Prop(props, H_COUNTYFP)), Prop(props, H_county_fips))
    [] OTHER -> Undefined

\* one iteration of the loop of getRelevantRedfinIds: the id set after the feature
ResolveFeature(m, stateAbbrev, level, props, relevantIds) ==
  LET areaId == FeatureAreaId(props, level)
      redfinId == getRedfinId(m, stateAbbrev, ValueToString(areaId), level)
  IN  IF Falsy(areaId) \/ Falsy(redfinId) THEN relevantIds
      ELSE Dedupe(Append(relevantIds, redfinId))

\* filterRedfinByRelevantIds without its empty-id-set guard
filterRedfinByRelevantIds_NoGuard(redfinData, relevantIds) ==
  LET Relevant(record) ==
        \E i \in 1..Len(relevantIds) : relevantIds[i] = ParseInt(Prop(record, H_table_id))
  IN  SelectSeq(redfinData, Relevant)

\* filterRedfinByRelevantIds(redfinData, relevantIds)
filterRedfinByRelevantIds(redfinData, relevantIds) ==
  IF Len(relevantIds) = 0 THEN redfinData
  ELSE LET Relevant(record) ==
             \E i \in 1..Len(relevantIds) :
               relevantIds[i] = ParseInt(Prop(record, H_table_id))
       IN  SelectSeq(redfinData, Relevant)

---------------------------------------------------------------------------
(* The state-scoped index cache *)

States == {"NV", "CA"}

Levels == {"county", "zip", "tract"}

\* cap of the fetch counters: at most this many fetches of one index file
MaxFetches == 2

\* performance.now() - startTime takes a value in 0..MaxLoadTime
MaxLoadTime == 0

CallIdle == [pc |-> "idle", stateAbbrev |-> "", resp |-> [l \in Levels |-> Pending],
             fetched |-> FALSE, ret |-> FALSE]

\* loadStateIndexes without the stateIndexCache.has check: every call fetches
BeginLoad_NoCacheCheck(c, s) ==
  /\ calls[c].pc \in {"idle", "done"}
  /\ \A l \in Levels : fetchCount[s][l] < MaxFetches
  /\ fetchCount' = [fetchCount EXCEPT ![s] = [l \in Levels |-> fetchCount[s][l] + 1]]
  /\ calls' = [calls EXCEPT ![c] = [CallIdle EXCEPT !.pc = "loading", !.stateAbbrev = s,
                                                 !.fetched = TRUE]]
  /\ UNCHANGED <<settled, stateIndexCache>>

\* loadStateIndexes joining the load another call has in flight for the state
BeginLoad_SharesInFlight(c, s) ==
  /\ calls[c].pc \in {"idle", "done"}
  /\ IF MapHas(stateIndexCache, s)
     THEN /\ calls' = [calls EXCEPT ![c] = [CallIdle EXCEPT !.pc = "done", !.stateAbbrev = s,
                                                         !.ret = TRUE]]
          /\ settled' = settled \cup {s}
          /\ UNCHANGED <<fetchCount, stateIndexCache>>
     ELSE IF \E d \in DOMAIN calls : calls[d].pc = "loading" /\ calls[d].stateAbbrev = s
     THEN /\ calls' = [calls EXCEPT ![c] = [CallIdle EXCEPT !.pc = "loading",
                                                         !.stateAbbrev = s]]
          /\ UNCHANGED <<fetchCount, settled, stateIndexCache>>
     ELSE /\ \A l \in Levels : fetchCount[s][l] < MaxFetches
          /\ fetchCount' = [fetchCount EXCEPT ![s] = [l \in Levels |-> fetchCount[s][l] + 1]]
          /\ calls' = [calls EXCEPT ![c] = [CallIdle EXCEPT !.pc = "loading",
                                                         !.stateAbbrev = s, !.fetched = TRUE]]
          /\ UNCHANGED <<settled, stateIndexCache>>

\* loadStateIndexes(stateAbbrev) up to its first await, for a caller that runs no
\* call (it has made none, or has taken the last one's result): a cached state
\* returns true at once; otherwise the three loadStateCSV calls each issue
\* their fetch.
BeginLoad(c, s) ==
  /\ calls[c].pc \in {"idle", "done"}
  /\ IF MapHas(stateIndexCache, s)
     THEN /\ calls' = [calls EXCEPT ![c] = [CallIdle EXCEPT !.pc = "done", !.stateAbbrev = s,
                                                         !.ret = TRUE]]
          /\ settled' = settled \cup {s}
          /\ UNCHANGED fetchCount
     ELSE /\ \A l \in Levels : fetchCount[s][l] < MaxFetches
          /\ fetchCount' = [fetchCount EXCEPT ![s] = [l \in Levels |-> fetchCount[s][l] + 1]]
          /\ calls' = [calls EXCEPT ![c] = [CallIdle EXCEPT !.pc = "loading", !.stateAbbrev = s,
                                                         !.fetched = TRUE]]
          /\ UNCHANGED settled
  /\ UNCHANGED stateIndexCache

\* a caller calls loadStateIndexes(s)
StartLoad(c, s) == BeginLoad(c, s) /\ UNCHANGED <<red, norm, others>>

\* one of the three fetches of a running call settles with outcome r
FetchReturn(c, l, r) ==
  /\ calls[c].pc = "loading"
  /\ calls[c].resp[l] = Pending
  /\ calls' = [calls EXCEPT ![c].resp[l] = r]
  /\ UNCHANGED <<stateIndexCache, fetchCount, settled, red, norm, others>>

\* loadStateIndexes storing its result in a fresh Map instead of the shared one
CompleteLoad_FreshMap(c, elapsed) ==
  LET s == calls[c].stateAbbrev
      p == [l \in Levels |-> loadStateCSV(calls[c].resp[l])]
  IN  /\ calls[c].pc = "loading"
      /\ \A l \in Levels : calls[c].resp[l] # Pending
      /\ stateIndexCache' =
           MapSet(<<>>, s, [counties |-> p["county"].value, zips |-> p["zip"].value,
                            tracts |-> p["tract"].value, loadTime |-> elapsed])
      /\ calls' = [calls EXCEPT ![c].pc = "done", ![c].ret = TRUE]
      /\ settled' = settled \cup {s}
      /\ UNCHANGED <<fetchCount, red, norm, others>>

\* loadStateIndexes storing the entry without waiting for Promise.all
CompleteLoad_NoJoin(c, elapsed) ==
  LET s == calls[c].stateAbbrev
      p == [l \in Levels |-> loadStateCSV(calls[c].resp[l])]
  IN  /\ calls[c].pc = "loading"
      /\ stateIndexCache' =
           MapSet(stateIndexCache, s,
                  [counties |-> p["county"].value, zips |-> p["zip"].value,
                   tracts |-> p["tract"].value, loadTime |-> elapsed])
      /\ calls' = [calls EXCEPT ![c].pc = "done", ![c].ret = TRUE]
      /\ settled' = settled \cup {s}
      /\ UNCHANGED <<fetchCount, red, norm, others>>

\* Promise.all has settled: the entry is stored and true returned, or (a
\* rejected loadStateCSV) the catch block returns false.
CompleteLoad(c, elapsed) ==
  LET s == calls[c].stateAbbrev
      p == [l \in Levels |-> loadStateCSV(calls[c].resp[l])]
      rejected == \E l \in Levels : calls[c].resp[l] # Pending /\ p[l].status = "rejected"
  IN  /\ calls[c].pc = "loading"
      /\ rejected \/ \A l \in Levels : calls[c].resp[l] # Pending
      /\ IF rejected
         THEN /\ calls' = [calls EXCEPT ![c].pc = "done", ![c].ret = FALSE]
              /\ UNCHANGED stateIndexCache
         ELSE /\ stateIndexCache' =
                   MapSet(stateIndexCache, s,
                          [counties |-> p["county"].value, zips |-> p["zip"].value,
                           tracts |-> p["tract"].value, loadTime |-> elapsed])
              /\ calls' = [calls EXCEPT ![c].pc = "done", ![c].ret = TRUE]
      /\ settled' = settled \cup {s}
      /\ UNCHANGED <<fetchCount, red, norm, others>>

\* clearStateCache(stateAbbrev), and clearStateCache() for arg = ""
clearStateCache(arg) ==
  /\ IF arg # ""
     THEN /\ stateIndexCache' = MapDelete(stateIndexCache, arg)
          /\ settled' = settled \ {arg}
     ELSE /\ stateIndexCache' = <<>>
          /\ settled' = {}
  /\ UNCHANGED <<calls, fetchCount, red, norm, others>>

\* The lookups and projections read the cache and return a value to their
\* caller; they assign nothing.
CallGetRedfinId(s, area, level) ==
  /\ getRedfinId(stateIndexCache, s, area, level).t \in {"num", "nan", "null"}
  /\ UNCHANGED vars

\* entry is what stateIndexCache.get gave the call: the entry, or nothing
LookupIdle ==
  [op |-> "none", stateAbbrev |-> "", area |-> <<>>, level |-> "", entry |-> <<>>, out |-> Null]

\* getRedfinId(stateAbbrev, area, level) is called and its result kept
LookupRedfinId(s, area, level) ==
  /\ lk' = [op |-> "getRedfinId", stateAbbrev |-> s, area |-> area, level |-> level,
            entry |-> IF MapHas(stateIndexCache, s) THEN <<MapGet(stateIndexCache, s)>>
                      ELSE <<>>,
            out |-> getRedfinId(stateIndexCache, s, area, level)]
  /\ UNCHANGED <<cacheVars, mt, uds, ld, sm, dataService>>

\* the other readers of the cache, called with their result kept
ReadTractsInZip(s, zipcode) ==
  /\ lk' = [LookupIdle EXCEPT !.op = "getTractsInZip", !.stateAbbrev = s, !.area = zipcode,
                              !.out = getTractsInZip(stateIndexCache, s, zipcode)]
  /\ UNCHANGED <<cacheVars, mt, uds, ld, sm, dataService>>

ReadZipsInCounty(s, countyName) ==
  /\ lk' = [LookupIdle EXCEPT !.op = "getZipsInCounty", !.stateAbbrev = s, !.area = countyName,
                              !.out = getZipsInCounty(stateIndexCache, s, countyName)]
  /\ UNCHANGED <<cacheVars, mt, uds, ld, sm, dataService>>

ReadStateCoverage(s, level) ==
  /\ lk' = [LookupIdle EXCEPT !.op = "checkStateCoverage", !.stateAbbrev = s, !.level = level,
                              !.out = checkStateCoverage(stateIndexCache, s, level)]
  /\ UNCHANGED <<cacheVars, mt, uds, ld, sm, dataService>>

ReadLoadedStates ==
  /\ lk' = [LookupIdle EXCEPT !.op = "getLoadedStates", !.out = getLoadedStates(stateIndexCache)]
  /\ UNCHANGED <<cacheVars, mt, uds, ld, sm, dataService>>

ReadCacheStats ==
  /\ lk' = [LookupIdle EXCEPT !.op = "getCacheStats", !.out = getCacheStats(stateIndexCache)]
  /\ UNCHANGED <<cacheVars, mt, uds, ld, sm, dataService>>

CallGetTractsInZip(s, zipcode) ==
  /\ Len(getTractsInZip(stateIndexCache, s, zipcode)) >= 0
  /\ UNCHANGED vars

CallGetZipsInCounty(s, countyName) ==
  /\ Len(getZipsInCounty(stateIndexCache, s, countyName)) >= 0
  /\ UNCHANGED vars

CallCheckStateCoverage(s, level) ==
  /\ checkStateCoverage(stateIndexCache, s, level).total >= 0
  /\ UNCHANGED vars

CallGetLoadedStates ==
  /\ Len(getLoadedStates(stateIndexCache)) >= 0
  /\ UNCHANGED vars

CallGetCacheStats ==
  /\ getCacheStats(stateIndexCache).cachedStates >= 0
  /\ UNCHANGED vars

---------------------------------------------------------------------------
(* getRelevantRedfinIds followed by filterRedfinByRelevantIds, as *)
(* loadDataWithCloudflare runs them on the fetched Redfin records *)

ReducerCall == "reducer"

RedIdle ==
  [pc |-> "idle", stateAbbrev |-> "", level |-> "", geoJsonFeatures |-> <<>>,
   redfinData |-> <<>>, index |-> 0, relevantIds |-> <<>>, result |-> <<>>,
   cachedAtStart |-> FALSE, sawEntry |-> FALSE]

\* the features the loop visits
SampleSize(features) == IF Len(features) < SampleLimit THEN Len(features) ELSE SampleLimit

\* getRelevantRedfinIds(stateAbbrev, level, features) is called and awaits
\* loadStateIndexes(stateAbbrev)
ReduceStart(s, level, features, redfinData) ==
  /\ BeginLoad(ReducerCall, s)
  /\ red' = [RedIdle EXCEPT !.pc = "loading", !.stateAbbrev = s, !.level = level,
                            !.geoJsonFeatures = features, !.redfinData = redfinData,
                            !.cachedAtStart = MapHas(stateIndexCache, s)]

\* the reduction called on its own
ReduceCall(s, level, features, redfinData) ==
  /\ red.pc \in {"idle", "done"}
  /\ ReduceStart(s, level, features, redfinData)
  /\ UNCHANGED <<norm, others>>

\* loadStateIndexes has returned: the loop starts
ReduceResume ==
  /\ red.pc = "loading"
  /\ calls[ReducerCall].pc = "done"
  /\ red' = [red EXCEPT !.pc = "resolving", !.index = 1]
  /\ UNCHANGED <<stateIndexCache, calls, fetchCount, settled, norm, others>>

\* one iteration of the loop: await getRedfinId(...) for the next sampled feature
ResolveNext ==
  /\ red.pc = "resolving"
  /\ red.index <= SampleSize(red.geoJsonFeatures)
  /\ red' = [red EXCEPT
               !.index = red.index + 1,
               !.relevantIds = ResolveFeature(stateIndexCache, red.stateAbbrev, red.level,
                                              red.geoJsonFeatures[red.index], red.relevantIds),
               !.sawEntry = red.sawEntry
                              \/ (/\ ~Falsy(FeatureAreaId(red.geoJsonFeatures[red.index], red.level))
                                  /\ MapHas(stateIndexCache, red.stateAbbrev))]
  /\ UNCHANGED <<stateIndexCache, calls, fetchCount, settled, norm, others>>

\* the loop is over: the ids are returned and the records filtered
ReduceFinish ==
  /\ red.pc = "resolving"
  /\ red.index > SampleSize(red.geoJsonFeatures)
  /\ red' = [red EXCEPT !.pc = "done",
                        !.result = filterRedfinByRelevantIds(red.redfinData, red.relevantIds)]
  /\ UNCHANGED <<stateIndexCache, calls, fetchCount, settled, norm, others>>

---------------------------------------------------------------------------
(* The matching rule table and matchFeatureToData *)

\* String(v), the text v contributes to a string concatenation
StringOf(v) ==
  CASE v.t = "undef" -> <<"u", "n", "d", "e", "f", "i", "n", "e", "d">>
    [] v.t = "null" -> <<"n", "u", "l", "l">>
    [] OTHER -> ValueToString(v)

EmptyRules == [featureFields |-> <<>>, dataFields |-> <<>>]

Rules(ff, df) == [featureFields |-> ff, dataFields |-> df]

RuleLevels == {"zip", "county", "state", "tract"}

RuleDatabases == {"census", "redfin", "fred"}

\* the patterns object of getDatabaseMatchingFields
patterns ==
  [level \in RuleLevels |-> [database \in RuleDatabases |->
     CASE level = "zip" /\ database = "census" ->
            Rules(<<"ZIPCODE", "GEOID", "zip_code">>, <<"zip", "zipcode", "ZIPCODE">>)
       [] level = "zip" /\ database = "redfin" ->
            Rules(<<"redfin_tableid_zip", "redfin_table_id_county">>, <<"table_id">>)
       [] level = "zip" /\ database = "fred" ->
            Rules(<<"state_county_code", "STATE_FIPS", "state_code">>,
                  <<"state_fips", "state_code">>)
       [] level = "county" /\ database = "census" ->
            Rules(<<"GEOID", "COUNTYFP", "NAMELSAD">>, <<"county", "county_name">>)
       [] level = "county" /\ database = "redfin" ->
            Rules(<<"redfin_table_id_county", "table_id", "region">>, <<"table_id", "region">>)
       [] level = "county" /\ database = "fred" ->
            Rules(<<"fred_county_fips", "GEOID", "NAMELSAD">>,
                  <<"county_fips", "fips_code", "county_name">>)
       [] level = "state" /\ database = "census" ->
            Rules(<<"STUSPS", "STATE", "NAME">>, <<"state", "state_name", "state_fips">>)
       [] level = "state" /\ database = "redfin" ->
            Rules(<<"state_code", "STATE">>, <<"state_code", "state">>)
       [] level = "state" /\ database = "fred" ->
            Rules(<<"STATE_FIPS", "STUSPS">>, <<"state_fips", "state_code">>)
       [] level = "tract" /\ database = "census" ->
            Rules(<<"geoid_tract_20_clean", "GEOID", "tract_str", "TRACTCE">>,
                  <<"GEOID", "tract">>)
       [] level = "tract" /\ database = "redfin" ->
            Rules(<<"redfin_table_id_county", "redfin_tableid_zip">>, <<"table_id">>)
       [] level = "tract" /\ database = "fred" ->
            Rules(<<"county_code_str", "STATE_FIPS", "state_code_str">>,
                  <<"county_fips", "state_fips">>)]]

\* a rule lookup answering the zip/census rules for an unknown combination
getDatabaseMatchingFields_Default(level, database) ==
  IF level \in RuleLevels /\ database \in RuleDatabases
  THEN patterns[level][database] ELSE patterns["zip"]["census"]

\* patterns[level]?.[database] || { featureFields: [], dataFields: [] }
getDatabaseMatchingFields(level, database) ==
  IF level \in RuleLevels /\ database \in RuleDatabases
  THEN patterns[level][database] ELSE EmptyRules

\* results of matchFeatureToData: null, the matched row, or a TypeError
NoMatch == [kind |-> "null", row |-> 0]
Matched(i) == [kind |-> "row", row |-> i]
Raised == [kind |-> "throw", row |-> 0]

\* a feature is [hasProperties, properties]; hasProperties is FALSE when the
\* feature object has no properties member
Feature(props) == [hasProperties |-> TRUE, properties |-> props]
NoProperties == [hasProperties |-> FALSE, properties |-> <<>>]

\* the feature ids: the rule's feature fields that are present, as trimmed text
FeatureIds(props, featureFields) ==
  LET present == SelectSeq([i \in 1..Len(featureFields) |-> Prop(props, featureFields[i])],
                           LAMBDA id : ~IsNullish(id) /\ id # Str(<<>>))
  IN  [i \in 1..Len(present) |-> Trim(ValueToString(present[i]))]

\* the test matchFeatureToData applies to one row, feature id and data field
FieldMatches(row, featureId, dataField, level, database) ==
  LET dataValue == Prop(row, dataField)
  IN  /\ ~IsNullish(dataValue)
      /\ IF level = "county" /\ database = "census" /\ dataField = "county"
         THEN StringOf(Prop(row, "state")) \o PadStart(ValueToString(dataValue), 3, "0")
                = featureId
         ELSE Trim(ValueToString(dataValue)) = featureId

matchFeatureToData(feature, dataRecords, level, database) ==
  LET matchingRules == getDatabaseMatchingFields(level, database)
      props == feature.properties
  IN  IF ~feature.hasProperties /\ matchingRules.featureFields # <<>> THEN Raised
      ELSE LET featureIds == FeatureIds(props, matchingRules.featureFields)
               Hit(i) ==
                 \E f \in 1..Len(featureIds), d \in 1..Len(matchingRules.dataFields) :
                   FieldMatches(dataRecords[i], featureIds[f], matchingRules.dataFields[d],
                                level, database)
           IN  IF featureIds = <<>> THEN NoMatch
               ELSE IF \E i \in 1..Len(dataRecords) : Hit(i)
               THEN Matched(CHOOSE i \in 1..Len(dataRecords) :
                              Hit(i) /\ \A j \in 1..(i - 1) : ~Hit(j))
               ELSE NoMatch

\* no call yet; featureAfter and recordsAfter are the arguments as the call
\* leaves them
MatchIdle ==
  [op |-> "none", level |-> "", database |-> "", feature |-> NoProperties,
   dataRecords |-> <<>>, rules |-> EmptyRules, out |-> NoMatch,
   featureAfter |-> NoProperties, recordsAfter |-> <<>>]

\* getDatabaseMatchingFields(level, database) is called
CallGetDatabaseMatchingFields(level, database) ==
  /\ mt.op = "none" /\ sm.op = "none"
  /\ mt' = [MatchIdle EXCEPT !.op = "rules", !.level = level, !.database = database,
                             !.rules = getDatabaseMatchingFields(level, database)]
  /\ UNCHANGED <<cacheVars, uds, ld, lk, sm, dataService>>

\* matchFeatureToData(feature, dataRecords, level, database) is called
CallMatchFeatureToData(feature, dataRecords, level, database) ==
  /\ mt.op = "none" /\ sm.op = "none"
  /\ mt' = [op |-> "match", level |-> level, database |-> database, feature |-> feature,
            dataRecords |-> dataRecords,
            rules |-> getDatabaseMatchingFields(level, database),
            out |-> matchFeatureToData(feature, dataRecords, level, database),
            featureAfter |-> feature, recordsAfter |-> dataRecords]
  /\ UNCHANGED <<cacheVars, uds, ld, lk, sm, dataService>>

---------------------------------------------------------------------------
(* matchDataSmart: the features of a GeoJSON file matched to census rows.  *)
(* Fetched rows and feature properties are keyed, as the index rows are,   *)
(* by the characters of the column name.                                   *)

\* the characters of the column names of the rule table and of
\* GEOGRAPHIC_SELECTIONS
FieldChars ==
  ("ZIPCODE" :> <<"Z", "I", "P", "C", "O", "D", "E">>)
  @@ ("GEOID" :> <<"G", "E", "O", "I", "D">>)
  @@ ("zip_code" :> <<"z", "i", "p", "_", "c", "o", "d", "e">>)
  @@ ("zip" :> <<"z", "i", "p">>)
  @@ ("zipcode" :> <<"z", "i", "p", "c", "o", "d", "e">>)
  @@ ("redfin_tableid_zip" :> <<"r", "e", "d", "f", "i", "n", "_", "t", "a", "b", "l", "e", "i", "d", "_", "z", "i", "p">>)
  @@ ("redfin_table_id_county" :> <<"r", "e", "d", "f", "i", "n", "_", "t", "a", "b", "l", "e", "_", "i", "d", "_", "c", "o", "u", "n", "t", "y">>)
  @@ ("table_id" :> <<"t", "a", "b", "l", "e", "_", "i", "d">>)
  @@ ("state_county_code" :> <<"s", "t", "a", "t", "e", "_", "c", "o", "u", "n", "t", "y", "_", "c", "o", "d", "e">>)
  @@ ("STATE_FIPS" :> <<"S", "T", "A", "T", "E", "_", "F", "I", "P", "S">>)
  @@ ("state_code" :> <<"s", "t", "a", "t", "e", "_", "c", "o", "d", "e">>)
  @@ ("state_fips" :> <<"s", "t", "a", "t", "e", "_", "f", "i", "p", "s">>)
  @@ ("COUNTYFP" :> <<"C", "O", "U", "N", "T", "Y", "F", "P">>)
  @@ ("NAMELSAD" :> <<"N", "A", "M", "E", "L", "S", "A", "D">>)
  @@ ("county" :> <<"c", "o", "u", "n", "t", "y">>)
  @@ ("county_name" :> <<"c", "o", "u", "n", "t", "y", "_", "n", "a", "m", "e">>)
  @@ ("region" :> <<"r", "e", "g", "i", "o", "n">>)
  @@ ("fred_county_fips" :> <<"f", "r", "e", "d", "_", "c", "o", "u", "n", "t", "y", "_", "f", "i", "p", "s">>)
  @@ ("county_fips" :> <<"c", "o", "u", "n", "t", "y", "_", "f", "i", "p", "s">>)
  @@ ("fips_code" :> <<"f", "i", "p", "s", "_", "c", "o", "d", "e">>)
  @@ ("STUSPS" :> <<"S", "T", "U", "S", "P", "S">>)
  @@ ("STATE" :> <<"S", "T", "A", "T", "E">>)
  @@ ("NAME" :> <<"N", "A", "M", "E">>)
  @@ ("state" :> <<"s", "t", "a", "t", "e">>)
  @@ ("state_name" :> <<"s", "t", "a", "t", "e", "_", "n", "a", "m", "e">>)
  @@ ("geoid_tract_20_clean" :> <<"g", "e", "o", "i", "d", "_", "t", "r", "a", "c", "t", "_", "2", "0", "_", "c", "l", "e", "a", "n">>)
  @@ ("tract_str" :> <<"t", "r", "a", "c", "t", "_", "s", "t", "r">>)
  @@ ("TRACTCE" :> <<"T", "R", "A", "C", "T", "C", "E">>)
  @@ ("tract" :> <<"t", "r", "a", "c", "t">>)
  @@ ("county_code_str" :> <<"c", "o", "u", "n", "t", "y", "_", "c", "o", "d", "e", "_", "s", "t", "r">>)
  @@ ("state_code_str" :> <<"s", "t", "a", "t", "e", "_", "c", "o", "d", "e", "_", "s", "t", "r">>)
  @@ ("FIPS" :> <<"F", "I", "P", "S">>)
  @@ ("preferred_city" :> <<"p", "r", "e", "f", "e", "r", "r", "e", "d", "_", "c", "i", "t", "y">>)

\* the characters of a state abbreviation
StateChars == [NV |-> <<"N", "V">>, CA |-> <<"C", "A">>, ZZ |-> <<"Z", "Z">>]

\* STATES[stateAbbrev]?.fredCode
fredCode(stateAbbrev) ==
  CASE stateAbbrev = "NV" -> Str(<<"3", "2">>)
    [] stateAbbrev = "CA" -> Str(<<"0", "6">>)
    [] OTHER -> Undefined

\* the identifier columns of MAP_ESSENTIAL_COLUMNS (the metric columns that
\* follow them are columns no row here carries)
GEOGRAPHIC_SELECTIONS ==
  [state |-> <<"state_name", "state_code", "state_fips">>,
   county |-> <<"GEOID", "NAME", "FIPS", "state", "county">>,
   zip |-> <<"ZIPCODE", "GEOID", "preferred_city", "state", "county", "zip">>,
   tract |-> <<"GEOID", "tract", "county", "county_name", "zip", "preferred_city">>]

\* getEssentialColumns(level): [] for the tract level and for an unknown level
getEssentialColumns(level) ==
  IF level \in {"state", "county", "zip"} THEN GEOGRAPHIC_SELECTIONS[level] ELSE <<>>

\* filterToEssentialColumns keeping every column
filterToEssentialColumns_KeepAll(data, level) == data

\* filterToEssentialColumns(data, level): new rows holding the essential
\* columns the row has; the tract level keeps the array as it is
filterToEssentialColumns(data, level) ==
  IF level = "tract" THEN data
  ELSE LET essentialCols == getEssentialColumns(level)
           keep == {FieldChars[essentialCols[i]] : i \in 1..Len(essentialCols)}
       IN  [r \in 1..Len(data) |-> [col \in keep \cap DOMAIN data[r] |-> data[r][col]]]

\* smartStateFilter(data, stateAbbrev, level): the rows kept by the first of
\* the four state tests that keeps any, all rows when none does
smartStateFilter(data, stateAbbrev, level) ==
  IF Len(data) = 0 \/ level = "state" THEN data
  ELSE LET stateFips == fredCode(stateAbbrev)
           abbrev == Str(StateChars[stateAbbrev])
           byStateFips == SelectSeq(data, LAMBDA row : StrictEq(Prop(row, FieldChars["state"]), stateFips))
           byStateCode == SelectSeq(data, LAMBDA row : StrictEq(Prop(row, FieldChars["state_code"]), abbrev))
           byState == SelectSeq(data, LAMBDA row : StrictEq(Prop(row, FieldChars["state"]), abbrev))
           byFips == SelectSeq(data, LAMBDA row : StrictEq(Prop(row, FieldChars["state_fips"]), stateFips))
       IN  IF Len(byStateFips) > 0 THEN byStateFips
           ELSE IF Len(byStateCode) > 0 THEN byStateCode
           ELSE IF Len(byState) > 0 THEN byState
           ELSE IF Len(byFips) > 0 THEN byFips
           ELSE data

\* an argument that may be missing (null or undefined)
Given(items) == [given |-> TRUE, items |-> items]
NotGiven == [given |-> FALSE, items |-> <<>>]

\* feature.properties._optimized_data: absent, or the projected row
NoData == [set |-> FALSE, row |-> <<>>]

\* a GeoJSON feature: its properties (or none) and its _optimized_data
SmartFeature(props) == [hasProperties |-> TRUE, properties |-> props, optimized |-> NoData]
SmartNoProperties == [hasProperties |-> FALSE, properties |-> <<>>, optimized |-> NoData]

\* the columns named by a field list
Columns(fields) == [i \in 1..Len(fields) |-> FieldChars[fields[i]]]

\* the test matchDataSmart applies to one row, feature id and data field
SmartFieldMatches(row, featureId, dataField, level, stateAbbrev) ==
  LET dataValue == Prop(row, FieldChars[dataField])
  IN  /\ ~IsNullish(dataValue)
      /\ IF level = "county"
         THEN LET stateFips == fredCode(stateAbbrev)
                  featureVariations == normalizeCountyId(Str(featureId), stateFips)
                  dataVariations == normalizeCountyId(dataValue, stateFips)
              IN  \E f \in 1..Len(featureVariations), d \in 1..Len(dataVariations) :
                    featureVariations[f] = dataVariations[d]
         ELSE Trim(ValueToString(dataValue)) = featureId

\* the row test of relevantData.find
SmartRowMatches(row, featureIds, dataFields, level, stateAbbrev) ==
  \E f \in 1..Len(featureIds), d \in 1..Len(dataFields) :
    SmartFieldMatches(row, featureIds[f], dataFields[d], level, stateAbbrev)

\* Array.prototype.find scanning from the last row
RECURSIVE FindLast(_, _, _, _, _, _)
FindLast(relevantData, from, featureIds, dataFields, level, stateAbbrev) ==
  LET k == Len(relevantData) + 1 - from
  IN  IF from > Len(relevantData) THEN 0
      ELSE IF SmartRowMatches(relevantData[k], featureIds, dataFields, level, stateAbbrev) THEN k
      ELSE FindLast(relevantData, from + 1, featureIds, dataFields, level, stateAbbrev)

\* relevantData.find(...): the position of the first row, from position
\* `from` on, that passes the row test; 0 when there is none
RECURSIVE Find(_, _, _, _, _, _)
Find(relevantData, from, featureIds, dataFields, level, stateAbbrev) ==
  IF from > Len(relevantData) THEN 0
  ELSE IF SmartRowMatches(relevantData[from], featureIds, dataFields, level, stateAbbrev)
  THEN from
  ELSE Find(relevantData, from + 1, featureIds, dataFields, level, stateAbbrev)

\* what a call of matchDataSmart leaves: whether it raised, the count it
\* returns, its two arrays after the call, the array the scan ranged over and,
\* per feature, the position in that array of the row found (0 for none)
SmartResult(raised, matchedCount, features, censusData, relevantData, found) ==
  [raised |-> raised, matchedCount |-> matchedCount, features |-> features,
   censusData |-> censusData, relevantData |-> relevantData, found |-> found]

NoSmartResult == SmartResult(FALSE, 0, <<>>, <<>>, <<>>, <<>>)

\* a forEach body that assigns _optimized_data whether or not a row was found
SmartVisit_AnnotatesAlways(acc, index, matchingFields, level, stateAbbrev) ==
  LET feature == acc.features[index]
      featureIds == FeatureIds(feature.properties, Columns(matchingFields.featureFields))
      dataMatch == Find(acc.relevantData, 1, featureIds, matchingFields.dataFields, level,
                        stateAbbrev)
  IN  IF ~feature.hasProperties /\ matchingFields.featureFields # <<>>
      THEN [acc EXCEPT !.raised = TRUE]
      ELSE IF featureIds = <<>> \/ dataMatch = 0
      THEN [acc EXCEPT !.found = Append(@, 0),
                       !.features[index].optimized = [set |-> TRUE, row |-> <<>>]]
      ELSE [acc EXCEPT
              !.matchedCount = @ + 1,
              !.found = Append(@, dataMatch),
              !.features[index].optimized =
                 [set |-> TRUE,
                  row |-> filterToEssentialColumns(<<acc.relevantData[dataMatch]>>, level)[1]]]

\* the body of features.forEach for the feature at position index
SmartVisit(acc, index, matchingFields, level, stateAbbrev) ==
  LET feature == acc.features[index]
      featureIds == FeatureIds(feature.properties, Columns(matchingFields.featureFields))
      dataMatch == Find(acc.relevantData, 1, featureIds, matchingFields.dataFields, level,
                        stateAbbrev)
  IN  IF ~feature.hasProperties /\ matchingFields.featureFields # <<>>
      THEN [acc EXCEPT !.raised = TRUE]
      ELSE IF featureIds = <<>> \/ dataMatch = 0
      THEN [acc EXCEPT !.found = Append(@, 0)]
      ELSE [acc EXCEPT
              !.matchedCount = @ + 1,
              !.found = Append(@, dataMatch),
              !.features[index].optimized =
                 [set |-> TRUE,
                  row |-> filterToEssentialColumns(<<acc.relevantData[dataMatch]>>, level)[1]]]

\* features.forEach: the features in order, until one raises
RECURSIVE SmartScan(_, _, _, _, _)
SmartScan(acc, index, matchingFields, level, stateAbbrev) ==
  IF index > Len(acc.features) \/ acc.raised THEN acc
  ELSE SmartScan(SmartVisit(acc, index, matchingFields, level, stateAbbrev), index + 1,
                 matchingFields, level, stateAbbrev)

\* matchDataSmart(features, censusData, level, stateAbbrev); "" is an absent
\* stateAbbrev
matchDataSmart(features, censusData, level, stateAbbrev) ==
  IF ~features.given \/ ~censusData.given
  THEN SmartResult(FALSE, 0, features.items, censusData.items, <<>>, <<>>)
  ELSE LET matchingFields == getDatabaseMatchingFields(level, "census")
           relevantData == IF stateAbbrev # "" /\ level # "state"
                           THEN smartStateFilter(censusData.items, stateAbbrev, level)
                           ELSE censusData.items
       IN  SmartScan(SmartResult(FALSE, 0, features.items, censusData.items, relevantData,
                                 <<>>),
                     1, matchingFields, level, stateAbbrev)

SmartIdle ==
  [op |-> "none", level |-> "", stateAbbrev |-> "", features |-> NotGiven,
   censusData |-> NotGiven, out |-> NoSmartResult]

\* matchDataSmart(features, censusData, level, stateAbbrev) is called
CallMatchDataSmart(features, censusData, level, stateAbbrev) ==
  /\ mt.op = "none" /\ sm.op = "none"
  /\ sm' = [op |-> "smart", level |-> level, stateAbbrev |-> stateAbbrev,
            features |-> features, censusData |-> censusData,
            out |-> matchDataSmart(features, censusData, level, stateAbbrev)]
  /\ UNCHANGED <<cacheVars, mt, uds, ld, lk, dataService>>

---------------------------------------------------------------------------
(* loadDataWithCloudflare: the four data sources of one view and the       *)
(* matching statistics.  FRED and Redfin rows are kept whole (the          *)
(* projection filterRedfinToEssentials drops members that nothing here     *)
(* reads); matchRate, a ratio of the two counts, is left out.              *)

\* the data sources in the order the loader takes them
SourceOrder == <<"geoJson", "censusData", "fredData", "redfinData">>

Sources == {SourceOrder[i] : i \in 1..Len(SourceOrder)}

\* the members of STATES that are used
STATES == {"NV", "CA"}

\* buildOptimizedUrls: throws for a state outside STATES and for the tract
\* level without a selectedViewMode ("" is an absent argument)
buildOptimizedUrls(stateAbbrev, level, selectedViewMode) ==
  IF stateAbbrev \notin STATES THEN [threw |-> TRUE, redfin |-> ""]
  ELSE IF level = "tract"
  THEN IF selectedViewMode = "" THEN [threw |-> TRUE, redfin |-> ""]
       ELSE [threw |-> FALSE, redfin |-> IF selectedViewMode = "county" THEN "county" ELSE "zip"]
  ELSE IF level = "state" THEN [threw |-> FALSE, redfin |-> "county"]
  ELSE [threw |-> FALSE, redfin |-> level]

\* the answer to the fetch of a data source: kind as for the index files;
\* the body parses as JSON or not, is an array of rows or one object, and
\* (GeoJSON) has a features member or not
DataResponse(kind, parses, isArray, hasFeatures, rows) ==
  [kind |-> kind, parses |-> parses, isArray |-> isArray, hasFeatures |-> hasFeatures,
   rows |-> rows]

NoResponse == DataResponse("pending", FALSE, FALSE, FALSE, <<>>)

\* response.ok and response.json() both succeed
Loads(resp) == resp.kind = "ok" /\ resp.parses

\* Array.isArray(raw) ? raw : [raw]
AsArray(resp) == IF resp.isArray THEN resp.rows ELSE <<resp.rows[1]>>

H_property_type_id == <<"p", "r", "o", "p", "e", "r", "t", "y", "_", "t", "y", "p", "e", "_", "i", "d">>

\* filterRedfinByPropertyType
filterRedfinByPropertyType(rawRedfinData) ==
  LET Essential(record) ==
        LET id == Prop(record, H_property_type_id)
        IN  /\ ~IsNullish(id)
            /\ ValueToString(id) \in {<<"-", "1">>, <<"6">>, <<"1", "3">>}
  IN  SelectSeq(rawRedfinData, Essential)

\* the number of loadDataWithCloudflare calls followed
MaxLoads == 1

\* no call of the loader yet; loads counts the calls, issued lists the sources
\* in the order their fetches were issued, answer keeps what each was answered
LoadIdle ==
  [pc |-> "idle", loads |-> 0, stateAbbrev |-> "", level |-> "", selectedViewMode |-> "",
   urlsBuilt |-> FALSE,
   loadingStatus |-> [k \in Sources |-> "not-attempted"],
   geoJson |-> [loaded |-> FALSE, hasFeatures |-> FALSE, features |-> <<>>],
   censusData |-> [loaded |-> FALSE, rows |-> <<>>],
   fredData |-> [loaded |-> FALSE, rows |-> <<>>],
   redfinData |-> [loaded |-> FALSE, rows |-> <<>>],
   totalFeatures |-> 0, matchedFeatures |-> 0, unmatchedFeatures |-> 0, redfinIdsFound |-> 0,
   issued |-> <<>>, answer |-> [k \in Sources |-> NoResponse]]

\* the fetch of source k is issued
Issue(l, k) ==
  [l EXCEPT !.pc = k, !.loadingStatus[k] = "loading", !.issued = Append(@, k)]

\* a loader whose catch blocks leave the status as it is
Settle_NoCatchStatus(l, k, resp) ==
  IF Loads(resp) THEN [l EXCEPT !.loadingStatus[k] = "success", !.answer[k] = resp]
  ELSE [l EXCEPT !.answer[k] = resp]

\* the try/catch around source k has run for the answer resp: the status is
\* success when the response is ok and its body parses, failed otherwise
Settle(l, k, resp) ==
  [l EXCEPT !.loadingStatus[k] = IF Loads(resp) THEN "success" ELSE "failed",
            !.answer[k] = resp]

\* the matching that follows the four sources: when the GeoJSON has features
\* and the census rows were loaded, matchDataSmart runs and the matched and
\* unmatched counts are assigned; an exception it raises is caught by the
\* outer catch and leaves the counts as they were
SmartMatching(l) ==
  IF l.geoJson.hasFeatures /\ l.censusData.loaded
  THEN LET features == [i \in 1..Len(l.geoJson.features) |->
                          SmartFeature(l.geoJson.features[i])]
           out == matchDataSmart(Given(features), Given(l.censusData.rows), l.level,
                                 l.stateAbbrev)
       IN  IF out.raised THEN l
           ELSE [l EXCEPT !.matchedFeatures = out.matchedCount,
                          !.unmatchedFeatures = l.totalFeatures - out.matchedCount]
  ELSE l

\* the end of the call: the timings and the return
Finish(l) == [l EXCEPT !.pc = "done"]

\* loadDataWithCloudflare(stateAbbrev, level, viewMode, selectedViewMode) up
\* to its first await: the URLs are built and the GeoJSON fetch is issued, or
\* buildOptimizedUrls throws and the outer catch ends the call
LoadCall(stateAbbrev, level, selectedViewMode) ==
  /\ ld.pc \in {"idle", "done"}
  /\ ld.loads < MaxLoads
  /\ LET urls == buildOptimizedUrls(stateAbbrev, level, selectedViewMode)
         l == [LoadIdle EXCEPT !.stateAbbrev = stateAbbrev, !.level = level,
                               !.selectedViewMode = selectedViewMode,
                               !.loads = ld.loads + 1]
     IN  ld' = IF urls.threw THEN Finish(l)
               ELSE Issue([l EXCEPT !.urlsBuilt = TRUE], "geoJson")
  /\ UNCHANGED <<cacheVars, mt, uds, lk, sm, dataService>>

\* the GeoJSON fetch has settled; the census fetch is issued
GeoJsonSettled(resp) ==
  /\ ld.pc = "geoJson"
  /\ LET l == Settle(ld, "geoJson", resp)
         features == IF resp.hasFeatures THEN resp.rows ELSE <<>>
     IN  ld' = Issue(IF Loads(resp)
                     THEN [l EXCEPT !.geoJson = [loaded |-> TRUE,
                                                 hasFeatures |-> resp.hasFeatures,
                                                 features |-> features],
                                    !.totalFeatures = Len(features)]
                     ELSE l,
                     "censusData")
  /\ UNCHANGED <<cacheVars, mt, uds, lk, sm, dataService>>

\* the census fetch has settled; the FRED fetch is issued
CensusSettled(resp) ==
  /\ ld.pc = "censusData"
  /\ LET l == Settle(ld, "censusData", resp)
     IN  ld' = Issue(IF Loads(resp)
                     THEN [l EXCEPT !.censusData =
                                      [loaded |-> TRUE,
                                       rows |-> filterToEssentialColumns(AsArray(resp),
                                                                         ld.level)]]
                     ELSE l,
                     "fredData")
  /\ UNCHANGED <<cacheVars, mt, uds, lk, sm, dataService>>

\* the FRED fetch has settled; the Redfin fetch is issued
FredSettled(resp) ==
  /\ ld.pc = "fredData"
  /\ LET l == Settle(ld, "fredData", resp)
     IN  ld' = Issue(IF Loads(resp)
                     THEN [l EXCEPT !.fredData = [loaded |-> TRUE, rows |-> AsArray(resp)]]
                     ELSE l,
                     "redfinData")
  /\ UNCHANGED <<cacheVars, mt, uds, lk, sm, dataService>>

\* result.geoJson?.features && (level === 'county' || level === 'zip')
UsesIndex(l) == l.geoJson.hasFeatures /\ l.level \in {"county", "zip"}

\* the Redfin fetch has settled and the index is not consulted: the records
\* are filtered by property type, or the source has failed; the matching
\* follows
RedfinSettled(resp) ==
  /\ ld.pc = "redfinData"
  /\ ~(Loads(resp) /\ UsesIndex(ld))
  /\ LET l == Settle(ld, "redfinData", resp)
     IN  ld' = Finish(SmartMatching(
                        IF Loads(resp)
                        THEN [l EXCEPT !.redfinData =
                                         [loaded |-> TRUE,
                                          rows |-> filterRedfinByPropertyType(AsArray(resp))]]
                        ELSE l))
  /\ UNCHANGED <<cacheVars, mt, uds, lk, sm, dataService>>

\* the Redfin fetch has settled with records and the loader awaits
\* getRelevantRedfinIds
RedfinSettledIndexed(resp) ==
  /\ ld.pc = "redfinData"
  /\ Loads(resp) /\ UsesIndex(ld)
  /\ red.pc \in {"idle", "done"}
  /\ ReduceStart(ld.stateAbbrev, ld.level, ld.geoJson.features, AsArray(resp))
  /\ ld' = [ld EXCEPT !.pc = "reducing", !.answer["redfinData"] = resp]
  /\ UNCHANGED <<norm, mt, uds, lk, sm, dataService>>

\* getRelevantRedfinIds and filterRedfinByRelevantIds have returned: the
\* records are filtered by property type and the source has succeeded; the
\* matching follows
RedfinReduced ==
  /\ ld.pc = "reducing"
  /\ red.pc = "done"
  /\ ld' = Finish(SmartMatching(
                [Settle(ld, "redfinData", ld.answer["redfinData"]) EXCEPT
                   !.redfinData = [loaded |-> TRUE,
                                   rows |-> filterRedfinByPropertyType(red.result)],
                   !.redfinIdsFound = Len(red.relevantIds)]))
  /\ UNCHANGED <<cacheVars, mt, uds, lk, sm, dataService>>

---------------------------------------------------------------------------
(* Calls of the normalizers *)

NormIdle == [op |-> "none", arg |-> Undefined, prefix |-> Undefined, out |-> <<>>, prev |-> <<>>]

CallNormalizeZipCode(zip) ==
  /\ norm.op = "none"
  /\ norm' = [norm EXCEPT !.op = "zip", !.arg = zip, !.out = normalizeZipCode(zip)]
  /\ UNCHANGED <<stateIndexCache, calls, fetchCount, settled, red, others>>

\* the normalized ZIP is normalized once more
CallNormalizeZipCodeAgain ==
  /\ norm.op = "zip"
  /\ norm' = [norm EXCEPT !.op = "zipAgain", !.prev = norm.out,
                          !.out = normalizeZipCode(Str(norm.out))]
  /\ UNCHANGED <<stateIndexCache, calls, fetchCount, settled, red, others>>

CallNormalizeCountyCode(county) ==
  /\ norm.op = "none"
  /\ norm' = [norm EXCEPT !.op = "countyCode", !.arg = county,
                          !.out = normalizeCountyCode(county)]
  /\ UNCHANGED <<stateIndexCache, calls, fetchCount, settled, red, others>>

CallNormalizeCountyId(id, addStatePrefix) ==
  /\ norm.op = "none"
  /\ norm' = [norm EXCEPT !.op = "countyId", !.arg = id, !.prefix = addStatePrefix,
                          !.out = normalizeCountyId(id, addStatePrefix)]
  /\ UNCHANGED <<stateIndexCache, calls, fetchCount, settled, red, others>>

---------------------------------------------------------------------------
(* DataService: the dashboard's loaders of the census, GeoJSON, FRED and   *)
(* Redfin files, and the cache they share, keyed by source, state and      *)
(* level.  A load runs up to its fetch in one step and settles in another, *)
(* so that the loads of two callers interleave.                            *)

\* STATES of the path resolver: the name and the FRED code of each state
ResolverStates ==
  [MA |-> [name |-> "Massachusetts", fredCode |-> "25"],
   NV |-> [name |-> "Nevada", fredCode |-> "32"],
   GA |-> [name |-> "Georgia", fredCode |-> "13"],
   AL |-> [name |-> "Alabama", fredCode |-> "01"]]

\* the data sources the resolver has a file pattern for
DATA_SOURCES == {"census", "fred", "redfin"}

BASE_URL == "https://raw.githubusercontent.com/CommercialBotAl/re_data/main"

\* a resolved path, and a resolution that threw
Resolved(url) == [raised |-> FALSE, error |-> "", url |-> url]
Unresolved(error) == [raised |-> TRUE, error |-> error, url |-> ""]

\* getDataSourceForLevel(level)
getDataSourceForLevel(level) ==
  IF level = "county" THEN "fred" ELSE "census"

\* resolveDataPath(stateAbbrev, level, dataSource): throws for a state
\* missing from STATES and for an unknown data source
resolveDataPath(stateAbbrev, level, dataSource) ==
  IF stateAbbrev \notin DOMAIN ResolverStates THEN Unresolved("Unknown state: " \o stateAbbrev)
  ELSE IF dataSource \notin DATA_SOURCES THEN Unresolved("Unknown data source: " \o dataSource)
  ELSE LET state == ResolverStates[stateAbbrev]
           filePath == CASE dataSource = "census" -> "Cen_" \o state.name \o "_" \o level \o "_2023_summary.json"
                         [] dataSource = "fred" -> "fred_counties_" \o state.fredCode \o ".json"
                         [] dataSource = "redfin" -> "redfin_" \o state.name \o "_county_2020.json"
       IN  Resolved(BASE_URL \o "/" \o stateAbbrev \o "/" \o filePath)

\* resolveGeoJsonPath(stateAbbrev, level): never throws
resolveGeoJsonPath(stateAbbrev, level) ==
  Resolved(BASE_URL \o "/Index/geojson/" \o stateAbbrev \o "_" \o level \o "_geometry.geojson")

\* the cache keys of the four loads
CensusKey(stateAbbrev, level) == "census-" \o stateAbbrev \o "-" \o level
GeoJsonKey(stateAbbrev, level) == "geojson-" \o stateAbbrev \o "-" \o level
FredKey(stateAbbrev) == "fred-" \o stateAbbrev
RedfinKey(stateAbbrev) == "redfin-" \o stateAbbrev

\* what fetch(url) and response.json() can answer: a rejected fetch, a
\* status outside 2xx, a body that is not JSON, a parsed body
DsResponse(rejects, ok, status, parses, body) ==
  [rejects |-> rejects, ok |-> ok, status |-> status, parses |-> parses, body |-> body]

\* the value a load returns, or the error it throws
DsReturned(data) == [raised |-> FALSE, data |-> data, error |-> ""]
DsThrown(error) == [raised |-> TRUE, data |-> <<>>, error |-> error]

\* the try block after the fetch: a rejected fetch, a response that is not
\* ok and a body that does not parse all throw
DsOutcome(failure, response) ==
  IF response.rejects THEN DsThrown("Failed to fetch")
  ELSE IF ~response.ok THEN DsThrown(failure \o ": " \o response.status)
  ELSE IF ~response.parses THEN DsThrown("Unexpected token")
  ELSE DsReturned(response.body)

\* this.cache.set on failures too
DsStored_OnFailure(cache, cacheKey, outcome) ==
  (cacheKey :> outcome.data) @@ cache

\* the cache after a settled load: this.cache.set(cacheKey, data) is reached
\* only when nothing threw
DsStored(cache, cacheKey, outcome) ==
  IF outcome.raised THEN cache ELSE (cacheKey :> outcome.data) @@ cache

\* a load that consults the cache by the truthiness of the cached value
DsCached_Truthy(cache, cacheKey) ==
  cacheKey \in DOMAIN cache /\ cache[cacheKey] # <<>>

\* this.cache.has(cacheKey)
DsCached(cache, cacheKey) ==
  cacheKey \in DOMAIN cache

\* a caller without a load in flight
DsIdle == [pc |-> "idle", cacheKey |-> "", url |-> "", failure |-> ""]

\* the latest thing a caller of the service saw or did: a value returned
\* from the cache ("hit"), an error thrown before any fetch ("threw"), a
\* fetch issued ("issued"), a fetched value stored and returned ("stored"),
\* an error rethrown after the fetch ("failed"), clearCache() ("cleared")
DsEvent(event, caller, cacheKey, value, error) ==
  [event |-> event, caller |-> caller, cacheKey |-> cacheKey, value |-> value, error |-> error]

DsCallers == {"d1", "d2"}

\* the number of fetches the service issues
MaxDsFetches == 2

\* the service after construction; failed is history: the keys whose fetch
\* ended in a rethrown error
DsNew ==
  [cache |-> <<>>,
   calls |-> [c \in DsCallers |-> DsIdle],
   fetches |-> 0,
   failed |-> {},
   last |-> DsEvent("none", "", "", <<>>, "")]

\* the body the four loads share, up to the await of fetch(url): a cached
\* key returns its value; else the path is resolved, which may throw into
\* the catch, and the file is fetched
DsLoad(c, cacheKey, path, failure) ==
  /\ dataService.calls[c].pc = "idle"
  /\ IF DsCached(dataService.cache, cacheKey)
     THEN dataService' = [dataService EXCEPT !.last = DsEvent("hit", c, cacheKey, dataService.cache[cacheKey], "")]
     ELSE IF path.raised
     THEN dataService' = [dataService EXCEPT !.last = DsEvent("threw", c, cacheKey, <<>>, path.error)]
     ELSE /\ dataService.fetches < MaxDsFetches
          /\ dataService' = [dataService EXCEPT !.calls[c] = [pc |-> "fetching", cacheKey |-> cacheKey, url |-> path.url, failure |-> failure],
                              !.fetches = @ + 1,
                              !.last = DsEvent("issued", c, cacheKey, <<>>, "")]
  /\ UNCHANGED <<cacheVars, mt, uds, ld, lk, sm>>

loadCensusData(c, stateAbbrev, level) ==
  DsLoad(c, CensusKey(stateAbbrev, level), resolveDataPath(stateAbbrev, level, getDataSourceForLevel(level)), "Failed to load data")

loadGeoJsonData(c, stateAbbrev, level) ==
  DsLoad(c, GeoJsonKey(stateAbbrev, level), resolveGeoJsonPath(stateAbbrev, level), "Failed to load GeoJSON")

loadFredData(c, stateAbbrev) ==
  DsLoad(c, FredKey(stateAbbrev), resolveDataPath(stateAbbrev, "county", "fred"), "Failed to load FRED data")

loadRedfinData(c, stateAbbrev) ==
  DsLoad(c, RedfinKey(stateAbbrev), resolveDataPath(stateAbbrev, "county", "redfin"), "Failed to load Redfin data")

\* the fetch of caller c settles: the parsed body is cached and returned,
\* or the error is logged and rethrown
DsSettle(c, response) ==
  /\ dataService.calls[c].pc = "fetching"
  /\ LET call == dataService.calls[c]
         out == DsOutcome(call.failure, response)
     IN  dataService' = [dataService EXCEPT !.calls[c] = DsIdle,
                          !.cache = DsStored(@, call.cacheKey, out),
                          !.failed = IF out.raised THEN @ \cup {call.cacheKey} ELSE @,
                          !.last = IF out.raised THEN DsEvent("failed", c, call.cacheKey, <<>>, out.error)
                                   ELSE DsEvent("stored", c, call.cacheKey, out.data, "")]
  /\ UNCHANGED <<cacheVars, mt, uds, ld, lk, sm>>

\* clearCache()
clearCache ==
  /\ dataService' = [dataService EXCEPT !.cache = <<>>, !.last = DsEvent("cleared", "", "", <<>>, "")]
  /\ UNCHANGED <<cacheVars, mt, uds, ld, lk, sm>>

---------------------------------------------------------------------------
(* UnifiedDataService: the unified index over the taxonomy                 *)
(* (redfin_master_index.json) and the flat zip source                      *)
(* (zip_master_index.csv).  Coordinates are in ten-thousandths of a        *)
(* degree.  Of a UnifiedLocation the members the builder only copies       *)
(* through (propertyTypes, geoJsonFile, dataFile, landArea, waterArea,     *)
(* metroRegion, dataSource) are left out.                                  *)

\* s.split(sep) for a non-empty separator
RECURSIVE Split(_, _)
Split(s, sep) ==
  LET n == Len(sep)
      At(i) == SubSeq(s, i, i + n - 1) = sep
  IN  IF \E i \in 1..(Len(s) - n + 1) : At(i)
      THEN LET i == CHOOSE k \in 1..(Len(s) - n + 1) : At(k) /\ \A j \in 1..(k - 1) : ~At(j)
           IN  <<SubSeq(s, 1, i - 1)>> \o Split(SubSeq(s, i + n, Len(s)), sep)
      ELSE <<s>>

PathSeparator == <<" ", ">", " ">>

CountyWord == <<"C", "o", "u", "n", "t", "y">>


\* the redfInIndex member: null, or the parsed taxonomy with its states,
\* counties, cities and zip_codes in Object.entries order; wellFormed is
\* FALSE for parsed JSON that is an object without these members
NoIndex == [loaded |-> FALSE, wellFormed |-> FALSE, states |-> <<>>, counties |-> <<>>,
            cities |-> <<>>, zip_codes |-> <<>>]

Index(states, counties, cities, zip_codes) ==
  [loaded |-> TRUE, wellFormed |-> TRUE, states |-> states, counties |-> counties,
   cities |-> cities, zip_codes |-> zip_codes]

StateEntry(name, code, tableId) == [key |-> name, state_code |-> code, primary_table_id |-> tableId]

CountyEntry(key, name, code, tableId, cities) ==
  [key |-> key, county_name |-> name, state_code |-> code, primary_table_id |-> tableId,
   cities |-> cities]

CityEntry(key, name, code, tableId) ==
  [key |-> key, city_name |-> name, state_code |-> code, primary_table_id |-> tableId]

ZipEntry(zip, code, tableId) == [key |-> zip, state_code |-> code, primary_table_id |-> tableId]

\* a ZipMasterRecord
ZipRecord(zipcode, code, county, redfinCity, censusCity, census, redfin, geometry, lat, lon) ==
  [zipcode |-> zipcode, state_code |-> code, redfin_county_name |-> county,
   redfin_city |-> redfinCity, census_city |-> censusCity, has_census_data |-> census,
   has_redfin_data |-> redfin, has_geometry |-> geometry, INTPTLAT |-> lat, INTPTLON |-> lon]


\* the redfInIndex of initializeMockData (integer-like keys of zip_codes come
\* first, in ascending order, in Object.entries)
MockIndex ==
  Index(
    <<StateEntry(<<"C", "a", "l", "i", "f", "o", "r", "n", "i", "a">>, <<"C", "A">>, 1001),
      StateEntry(<<"N", "e", "v", "a", "d", "a">>, <<"N", "V">>, 2001),
      StateEntry(<<"M", "a", "s", "s", "a", "c", "h", "u", "s", "e", "t", "t", "s">>, <<"M", "A">>, 3001)>>,
    <<CountyEntry(<<"L", "o", "s", " ", "A", "n", "g", "e", "l", "e", "s", " ", "C", "o", "u", "n", "t", "y", ",", " ", "C", "A">>, <<"L", "o", "s", " ", "A", "n", "g", "e", "l", "e", "s", " ", "C", "o", "u", "n", "t", "y">>,
                  <<"C", "A">>, 1101, <<<<"L", "o", "s", " ", "A", "n", "g", "e", "l", "e", "s">>, <<"B", "e", "v", "e", "r", "l", "y", " ", "H", "i", "l", "l", "s">>>>),
      CountyEntry(<<"C", "l", "a", "r", "k", " ", "C", "o", "u", "n", "t", "y", ",", " ", "N", "V">>, <<"C", "l", "a", "r", "k", " ", "C", "o", "u", "n", "t", "y">>,
                  <<"N", "V">>, 2101, <<<<"L", "a", "s", " ", "V", "e", "g", "a", "s">>, <<"H", "e", "n", "d", "e", "r", "s", "o", "n">>>>),
      CountyEntry(<<"S", "u", "f", "f", "o", "l", "k", " ", "C", "o", "u", "n", "t", "y", ",", " ", "M", "A">>, <<"S", "u", "f", "f", "o", "l", "k", " ", "C", "o", "u", "n", "t", "y">>,
                  <<"M", "A">>, 3101, <<<<"B", "o", "s", "t", "o", "n">>>>)>>,
    <<CityEntry(<<"L", "o", "s", " ", "A", "n", "g", "e", "l", "e", "s", ",", " ", "C", "A">>, <<"L", "o", "s", " ", "A", "n", "g", "e", "l", "e", "s">>, <<"C", "A">>, 1201),
      CityEntry(<<"L", "a", "s", " ", "V", "e", "g", "a", "s", ",", " ", "N", "V">>, <<"L", "a", "s", " ", "V", "e", "g", "a", "s">>, <<"N", "V">>, 2201),
      CityEntry(<<"B", "o", "s", "t", "o", "n", ",", " ", "M", "A">>, <<"B", "o", "s", "t", "o", "n">>, <<"M", "A">>, 3201)>>,
    <<ZipEntry(<<"8", "9", "1", "0", "1">>, <<"N", "V">>, 89101001),
      ZipEntry(<<"9", "0", "2", "1", "0">>, <<"C", "A">>, 90210001),
      ZipEntry(<<"0", "2", "1", "0", "1">>, <<"M", "A">>, 2101001)>>)

\* the zipMasterData of initializeMockData
MockZips ==
  <<ZipRecord(Str(<<"9", "0", "2", "1", "0">>), <<"C", "A">>, Str(<<"L", "o", "s", " ", "A", "n", "g", "e", "l", "e", "s", " ", "C", "o", "u", "n", "t", "y">>),
               Str(<<"B", "e", "v", "e", "r", "l", "y", " ", "H", "i", "l", "l", "s">>), Str(<<"B", "e", "v", "e", "r", "l", "y", " ", "H", "i", "l", "l", "s">>),
               TRUE, TRUE, TRUE, 340901, -1184065),
    ZipRecord(Str(<<"8", "9", "1", "0", "1">>), <<"N", "V">>, Str(<<"C", "l", "a", "r", "k", " ", "C", "o", "u", "n", "t", "y">>),
               Str(<<"L", "a", "s", " ", "V", "e", "g", "a", "s">>), Str(<<"L", "a", "s", " ", "V", "e", "g", "a", "s">>),
               TRUE, TRUE, TRUE, 361699, -1151398),
    ZipRecord(Str(<<"0", "2", "1", "0", "1">>), <<"M", "A">>, Str(<<"S", "u", "f", "f", "o", "l", "k", " ", "C", "o", "u", "n", "t", "y">>),
               Str(<<"B", "o", "s", "t", "o", "n">>), Str(<<"B", "o", "s", "t", "o", "n">>),
               TRUE, TRUE, TRUE, 423601, -710589)>>



\* a UnifiedLocation
Location(zipCode, stateCode, stateName, tableId, path, coordinates, hasData, parentState, parentCounty, childCities, childZips) ==
  [zipCode |-> zipCode, stateCode |-> stateCode, stateName |-> stateName,
   primaryTableId |-> tableId, hierarchicalPath |-> path, coordinates |-> coordinates,
   hasData |-> hasData, parentState |-> parentState, parentCounty |-> parentCounty,
   childCities |-> childCities, childZips |-> childZips]

\* coordinates taken from the last record
RepCoordinates_Last(zips) ==
  IF zips = <<>> THEN <<0, 0>> ELSE <<zips[Len(zips)].INTPTLAT, zips[Len(zips)].INTPTLON>>

\* [repZip.INTPTLAT, repZip.INTPTLON] of the first record, [0, 0] without one
RepCoordinates(zips) ==
  IF zips = <<>> THEN <<0, 0>> ELSE <<zips[1].INTPTLAT, zips[1].INTPTLON>>

\* the hasData member aggregated with some() over the records
SomeHasData(zips) ==
  [census |-> \E i \in 1..Len(zips) : zips[i].has_census_data,
   redfin |-> \E i \in 1..Len(zips) : zips[i].has_redfin_data,
   geometry |-> \E i \in 1..Len(zips) : zips[i].has_geometry]

ZipcodesOf(zips) == [i \in 1..Len(zips) |-> zips[i].zipcode]

\* name.toLowerCase().split(",")[0]
FirstCommaSegment(name) == Split(ToLowerCase(name), <<",">>)[1]

\* v?.toLowerCase().includes(segment)
OptIncludesLower(v, segment) == v.t = "str" /\ Includes(ToLowerCase(v.s), segment)

getStateName(index, stateCode) ==
  IF ~index.loaded THEN stateCode
  ELSE IF \E i \in 1..Len(index.states) : index.states[i].state_code = stateCode
  THEN index.states[CHOOSE i \in 1..Len(index.states) :
                      /\ index.states[i].state_code = stateCode
                      /\ \A j \in 1..(i - 1) : index.states[j].state_code # stateCode].key
  ELSE stateCode

\* zipLookup.get(key): the last record set under a key equal to it
ZipLookupGet(zipMasterData, key) ==
  LET hits == SelectSeq(zipMasterData, LAMBDA record : record.zipcode = key)
  IN  IF hits = <<>> THEN <<>> ELSE <<hits[Len(hits)]>>

UnifiedState(index, zipMasterData, stateInfo) ==
  LET stateZips == SelectSeq(zipMasterData, LAMBDA z : z.state_code = stateInfo.state_code)
  IN  [key |-> <<"s", "t", "a", "t", "e", ":">> \o stateInfo.state_code,
       data |-> Location(Undefined, stateInfo.state_code, stateInfo.key,
                         stateInfo.primary_table_id, stateInfo.key, RepCoordinates(stateZips),
                         SomeHasData(stateZips), Undefined, Undefined, <<>>,
                         ZipcodesOf(stateZips))]

\* a county node whose records are chosen by name alone
UnifiedCounty_AnyState(index, zipMasterData, countyInfo) ==
  LET countyZips ==
        SelectSeq(zipMasterData,
                  LAMBDA z : /\ ~Falsy(z.redfin_county_name)
                             /\ OptIncludesLower(z.redfin_county_name,
                                                 FirstCommaSegment(countyInfo.county_name)))
      stateName == getStateName(index, countyInfo.state_code)
  IN  [key |-> <<"c", "o", "u", "n", "t", "y", ":">> \o countyInfo.key,
       data |-> Location(Undefined, countyInfo.state_code, stateName,
                         countyInfo.primary_table_id,
                         stateName \o PathSeparator \o countyInfo.county_name,
                         RepCoordinates(countyZips), SomeHasData(countyZips), Str(stateName),
                         Undefined, countyInfo.cities, ZipcodesOf(countyZips))]

UnifiedCounty(index, zipMasterData, countyInfo) ==
  LET countyZips ==
        SelectSeq(zipMasterData,
                  LAMBDA z : /\ z.state_code = countyInfo.state_code
                             /\ ~Falsy(z.redfin_county_name)
                             /\ OptIncludesLower(z.redfin_county_name,
                                                 FirstCommaSegment(countyInfo.county_name)))
      stateName == getStateName(index, countyInfo.state_code)
  IN  [key |-> <<"c", "o", "u", "n", "t", "y", ":">> \o countyInfo.key,
       data |-> Location(Undefined, countyInfo.state_code, stateName,
                         countyInfo.primary_table_id,
                         stateName \o PathSeparator \o countyInfo.county_name,
                         RepCoordinates(countyZips), SomeHasData(countyZips), Str(stateName),
                         Undefined, countyInfo.cities, ZipcodesOf(countyZips))]

UnifiedCity(index, zipMasterData, cityInfo) ==
  LET cityZips ==
        SelectSeq(zipMasterData,
                  LAMBDA z : /\ z.state_code = cityInfo.state_code
                             /\ \/ OptIncludesLower(z.redfin_city,
                                                    FirstCommaSegment(cityInfo.city_name))
                                \/ OptIncludesLower(z.census_city,
                                                    FirstCommaSegment(cityInfo.city_name)))
      stateName == getStateName(index, cityInfo.state_code)
  IN  [key |-> <<"c", "i", "t", "y", ":">> \o cityInfo.key,
       data |-> Location(Undefined, cityInfo.state_code, stateName, cityInfo.primary_table_id,
                         stateName \o PathSeparator \o cityInfo.city_name,
                         RepCoordinates(cityZips), SomeHasData(cityZips), Str(stateName),
                         Undefined, <<>>, ZipcodesOf(cityZips))]

UnifiedZip(index, zipMasterData, zipInfo) ==
  LET zipMasterRecord == ZipLookupGet(zipMasterData, Str(zipInfo.key))
      stateName == getStateName(index, zipInfo.state_code)
  IN  [key |-> <<"z", "i", "p", ":">> \o zipInfo.key,
       data |-> Location(Str(zipInfo.key), zipInfo.state_code, stateName,
                         zipInfo.primary_table_id, stateName \o PathSeparator \o zipInfo.key,
                         RepCoordinates(zipMasterRecord), SomeHasData(zipMasterRecord),
                         Str(stateName),
                         IF zipMasterRecord = <<>> THEN Undefined
                         ELSE zipMasterRecord[1].redfin_county_name,
                         <<>>, <<>>)]

\* unifiedLookup.set for each entry in turn
RECURSIVE SetAll(_, _)
SetAll(lookup, entries) ==
  IF entries = <<>> THEN lookup
  ELSE SetAll(MapSet(lookup, entries[1].key, entries[1].data), Tail(entries))

\* buildUnifiedLookup: nothing without a redfInIndex; a TypeError at
\* Object.entries for an index without its members; otherwise the states,
\* counties, cities and zip codes are set in this order
buildUnifiedLookup(index, zipMasterData, lookup) ==
  IF ~index.loaded THEN [raised |-> FALSE, lookup |-> lookup]
  ELSE IF ~index.wellFormed THEN [raised |-> TRUE, lookup |-> lookup]
  ELSE [raised |-> FALSE,
        lookup |->
          SetAll(lookup,
                 [i \in 1..Len(index.states) |->
                    UnifiedState(index, zipMasterData, index.states[i])]
                 \o [i \in 1..Len(index.counties) |->
                       UnifiedCounty(index, zipMasterData, index.counties[i])]
                 \o [i \in 1..Len(index.cities) |->
                       UnifiedCity(index, zipMasterData, index.cities[i])]
                 \o [i \in 1..Len(index.zip_codes) |->
                       UnifiedZip(index, zipMasterData, index.zip_codes[i])])]


\* the order localeCompare gives the characters of paths, names and zip
\* codes: white space, punctuation, digits, then letters without regard to case
CollationOrder ==
  <<" ", ",", ">">> \o DigitChars \o LowerChars

CollationRank(c) ==
  IF \E i \in 1..Len(CollationOrder) : CollationOrder[i] = LowerChar(c)
  THEN CHOOSE i \in 1..Len(CollationOrder) : CollationOrder[i] = LowerChar(c)
  ELSE 0

\* a.localeCompare(b) < 0, = 0 or > 0 as -1, 0 or 1
RECURSIVE LocaleCompare(_, _)
LocaleCompare(a, b) ==
  IF a = <<>> THEN (IF b = <<>> THEN 0 ELSE -1)
  ELSE IF b = <<>> THEN 1
  ELSE IF CollationRank(Head(a)) < CollationRank(Head(b)) THEN -1
  ELSE IF CollationRank(Head(a)) > CollationRank(Head(b)) THEN 1
  ELSE LocaleCompare(Tail(a), Tail(b))

\* the member a listing sorts on; zipCode || "" for the zip listing
SortKey(loc, member) ==
  IF member = "zipCode" THEN ValueToString(loc.zipCode) ELSE loc[member]

\* locs.sort((a, b) => a[member].localeCompare(b[member])), a stable sort
RECURSIVE SortLocations(_, _)
SortLocations(locs, member) ==
  IF locs = <<>> THEN <<>>
  ELSE LET rest == SortLocations(SubSeq(locs, 1, Len(locs) - 1), member)
           x == locs[Len(locs)]
           NotAfter(y) == LocaleCompare(SortKey(y, member), SortKey(x, member)) <= 0
           After(y) == ~NotAfter(y)
       IN  SelectSeq(rest, NotAfter) \o <<x>> \o SelectSeq(rest, After)

\* Array.from(unifiedLookup.values())
Values(lookup) == [i \in 1..Len(lookup) |-> lookup[i].data]

\* loc.hierarchicalPath.split(" > ")
PathParts(loc) == Split(loc.hierarchicalPath, PathSeparator)

getStates(lookup) ==
  SortLocations(SelectSeq(Values(lookup), LAMBDA loc : Len(PathParts(loc)) = 1), "stateName")

getCountiesInState(lookup, stateCode) ==
  SortLocations(SelectSeq(Values(lookup),
                          LAMBDA loc : /\ loc.stateCode = stateCode
                                       /\ Len(PathParts(loc)) = 2
                                       /\ Includes(loc.hierarchicalPath, CountyWord)),
                "hierarchicalPath")

getCitiesInState(lookup, stateCode) ==
  SortLocations(SelectSeq(Values(lookup),
                          LAMBDA loc : /\ loc.stateCode = stateCode
                                       /\ Len(PathParts(loc)) = 2
                                       /\ ~Includes(loc.hierarchicalPath, CountyWord)),
                "hierarchicalPath")

getZipsInState(lookup, stateCode) ==
  SortLocations(SelectSeq(Values(lookup),
                          LAMBDA loc : loc.stateCode = stateCode /\ ~Falsy(loc.zipCode)),
                "zipCode")

\* the type getStats counts a location under
StatsType(loc) ==
  LET parts == PathParts(loc)
  IN  IF Len(parts) = 1 THEN "state"
      ELSE IF Len(parts) = 2 /\ ~Falsy(loc.zipCode) THEN "zip"
      ELSE IF Len(parts) = 2 /\ Includes(parts[2], CountyWord) THEN "county"
      ELSE "city"

StatsTypes == {"state", "zip", "county", "city"}

NoStats ==
  [totalLocations |-> 0, byType |-> [type \in StatsTypes |-> 0], byState |-> <<>>,
   withGeometry |-> 0, withCensus |-> 0, withRedfin |-> 0]

\* byState after the forEach: the state codes in order of first appearance
RECURSIVE ByState(_, _)
ByState(locs, acc) ==
  IF locs = <<>> THEN acc
  ELSE LET code == locs[1].stateCode
           seen == IF MapHas(acc, code) THEN MapGet(acc, code) ELSE 0
       IN  ByState(Tail(locs), MapSet(acc, code, seen + 1))

\* getStats; a type without locations has no byType member, shown here as 0
getStats(lookup) ==
  LET locations == Values(lookup)
      At == 1..Len(locations)
  IN  [totalLocations |-> Len(locations),
       byType |-> [type \in StatsTypes |->
                     Cardinality({i \in At : StatsType(locations[i]) = type})],
       byState |-> ByState(locations, <<>>),
       withGeometry |-> Cardinality({i \in At : locations[i].hasData.geometry}),
       withCensus |-> Cardinality({i \in At : locations[i].hasData.census}),
       withRedfin |-> Cardinality({i \in At : locations[i].hasData.redfin})]

\* a query of the public API: ensureLoaded throws before initialize() has
\* set isLoaded
RunQuery(u, op, arg) ==
  IF ~u.isLoaded THEN [op |-> op, arg |-> arg, threw |-> TRUE, out |-> <<>>, stats |-> NoStats]
  ELSE [op |-> op, arg |-> arg, threw |-> FALSE,
        out |-> CASE op = "getStates" -> getStates(u.unifiedLookup)
                  [] op = "getCountiesInState" -> getCountiesInState(u.unifiedLookup, arg)
                  [] op = "getCitiesInState" -> getCitiesInState(u.unifiedLookup, arg)
                  [] op = "getZipsInState" -> getZipsInState(u.unifiedLookup, arg)
                  [] OTHER -> <<>>,
        stats |-> IF op = "getStats" THEN getStats(u.unifiedLookup) ELSE NoStats]

\* Papa.parse with dynamicTyping on one text cell: an empty cell is null, a
\* cell of decimal digits becomes that number, any other cell stays a string
DynamicTyping(cell) ==
  IF cell = <<>> THEN Null
  ELSE IF \A i \in 1..Len(cell) : IsDigit(cell[i]) THEN Num(DigitsToNat(cell, 0))
  ELSE Str(cell)

\* one data line of zip_master_index.csv: the cells of the text columns, and
\* the boolean and coordinate columns with the values their cells denote
CsvRow(zipcode, code, county, redfinCity, censusCity, census, redfin, geometry, lat, lon) ==
  [zipcode |-> zipcode, state_code |-> code, redfin_county_name |-> county,
   redfin_city |-> redfinCity, census_city |-> censusCity, has_census_data |-> census,
   has_redfin_data |-> redfin, has_geometry |-> geometry, INTPTLAT |-> lat, INTPTLON |-> lon]

\* Papa.parse(zipCsvText, {header, dynamicTyping, skipEmptyLines}).data
PapaParse(rows) ==
  [i \in 1..Len(rows) |->
     ZipRecord(DynamicTyping(rows[i].zipcode), rows[i].state_code,
               DynamicTyping(rows[i].redfin_county_name), DynamicTyping(rows[i].redfin_city),
               DynamicTyping(rows[i].census_city), rows[i].has_census_data,
               rows[i].has_redfin_data, rows[i].has_geometry, rows[i].INTPTLAT,
               rows[i].INTPTLON)]

\* an HTTP response: the fetch rejects, answers with a non-2xx status, or
\* answers 2xx with a content-type header and a body
Response(kind, contentType, parses, index, rows) ==
  [kind |-> kind, contentType |-> contentType, parses |-> parses, index |-> index,
   rows |-> rows]

\* contentType?.includes("application/json") and contentType?.includes("text/html");
\* "none" is a response without the header
IsJson(contentType) == contentType = "application/json"
IsHtml(contentType) == contentType = "text/html"

\* checkDataFiles: the two HEAD requests, each in its own try/catch
checkDataFiles(headRedfin, headZip) ==
  [redfin |-> headRedfin.kind = "ok" /\ IsJson(headRedfin.contentType),
   zip |-> headZip.kind = "ok" /\ ~IsHtml(headZip.contentType)]

\* the number of initialize() calls followed
MaxInitializes == 2

NoQuery == [op |-> "none", arg |-> <<>>, threw |-> FALSE, out |-> <<>>, stats |-> NoStats]

NoRun == [checked |-> FALSE, taxonomyLoaded |-> FALSE, flatLoaded |-> FALSE,
          fellBack |-> FALSE, raised |-> FALSE]

\* a constructed UnifiedDataService; pc is the await initialize() is at, run
\* the course of the latest initialize() call, initializes the number of
\* calls so far, query the query answered since the last step of initialize()
UdsIdle ==
  [pc |-> "idle", redfInIndex |-> NoIndex, zipMasterData |-> <<>>, unifiedLookup |-> <<>>,
   isLoaded |-> FALSE, fileChecks |-> [redfin |-> FALSE, zip |-> FALSE], run |-> NoRun,
   initializes |-> 0, query |-> NoQuery]

initializeMockData(u) ==
  [u EXCEPT !.redfInIndex = MockIndex,
            !.zipMasterData = MockZips,
            !.unifiedLookup = buildUnifiedLookup(MockIndex, MockZips, u.unifiedLookup).lookup]

\* an initialize() whose outer catch rethrows
InitializeCatch_Rethrow(u) == [u EXCEPT !.pc = "done", !.run.raised = TRUE]

\* the outer catch of initialize()
InitializeCatch(u) ==
  [initializeMockData(u) EXCEPT !.isLoaded = TRUE, !.pc = "done", !.run.fellBack = TRUE]

\* initialize() from buildUnifiedLookup() to its return
InitializeBuild(u) ==
  LET built == buildUnifiedLookup(u.redfInIndex, u.zipMasterData, u.unifiedLookup)
  IN  IF built.raised THEN InitializeCatch(u)
      ELSE [u EXCEPT !.unifiedLookup = built.lookup, !.isLoaded = TRUE, !.pc = "done"]

\* initialize() is called and awaits checkDataFiles()
InitializeCall ==
  /\ uds.pc \in {"idle", "done"}
  /\ uds.initializes < MaxInitializes
  /\ uds' = [uds EXCEPT !.pc = "check", !.run = NoRun, !.query = NoQuery,
                        !.initializes = @ + 1,
                        !.fileChecks = [redfin |-> FALSE, zip |-> FALSE]]
  /\ UNCHANGED <<cacheVars, mt, ld, lk, sm, dataService>>

\* checkDataFiles() has returned: without either file the mock data are
\* installed and initialize() returns; otherwise the first available file is
\* fetched
InitializeChecked(headRedfin, headZip) ==
  /\ uds.pc = "check"
  /\ LET fileChecks == checkDataFiles(headRedfin, headZip)
         u == [uds EXCEPT !.fileChecks = fileChecks, !.run.checked = TRUE,
                          !.query = NoQuery]
     IN  uds' = IF ~fileChecks.redfin /\ ~fileChecks.zip
                THEN [initializeMockData(u) EXCEPT !.isLoaded = TRUE, !.pc = "done"]
                ELSE [u EXCEPT !.pc = IF fileChecks.redfin THEN "redfin" ELSE "zip"]
  /\ UNCHANGED <<cacheVars, mt, ld, lk, sm, dataService>>

\* the GET of /redfin_master_index.json has settled
InitializeRedfinLoaded(resp) ==
  /\ uds.pc = "redfin"
  /\ LET now == [uds EXCEPT !.query = NoQuery]
     IN  uds' = IF resp.kind # "ok" \/ ~IsJson(resp.contentType) \/ ~resp.parses
                THEN InitializeCatch(now)
                ELSE LET u == [now EXCEPT !.redfInIndex = resp.index,
                                          !.run.taxonomyLoaded = TRUE]
                     IN  IF u.fileChecks.zip THEN [u EXCEPT !.pc = "zip"]
                         ELSE InitializeBuild(u)
  /\ UNCHANGED <<cacheVars, mt, ld, lk, sm, dataService>>

\* the GET of /zip_master_index.csv has settled
InitializeZipLoaded(resp) ==
  /\ uds.pc = "zip"
  /\ LET now == [uds EXCEPT !.query = NoQuery]
     IN  uds' = IF resp.kind # "ok" \/ IsHtml(resp.contentType)
                THEN InitializeCatch(now)
                ELSE InitializeBuild([now EXCEPT !.zipMasterData = PapaParse(resp.rows),
                                                 !.run.flatLoaded = TRUE])
  /\ UNCHANGED <<cacheVars, mt, ld, lk, sm, dataService>>

\* a listing query or getStats is called
Query(op, arg) ==
  /\ uds.query = NoQuery
  /\ uds' = [uds EXCEPT !.query = RunQuery(uds, op, arg)]
  /\ UNCHANGED <<cacheVars, mt, ld, lk, sm, dataService>>

---------------------------------------------------------------------------
(* Index files served by the remote store *)

CountyText ==
  << <<H_GEOID, H_COUNTYFP, H_NAME, H_table_id>>,
     <<<<"3", "2", "0", "0", "3">>, <<"0", "0", "3">>, <<"C", "l", "a", "r", "k">>, <<"7">>>>,
     <<<<"3", "2", "0", "3", "1">>, <<"0", "3", "1">>, <<"W", "a", "s", "h", "o", "e">>, <<"8">>>> >>

ZipText ==
  << <<H_ZIPCODE, H_redfin_tableid_zip, H_redfin_county_name>>,
     <<<<"8", "9", "0", "0", "1">>, <<"7">>, <<"C", "l", "a", "r", "k">>>>,
     <<<<"1", "0", "0", "1">>, <<"8">>, <<"W", "a", "s", "h", "o", "e">>>> >>

TractText ==
  << <<H_GEOID, H_zip_code_clean>>,
     <<<<"3", "2", "0", "0", "3", "0", "1">>, <<"8", "9", "0", "0", "1">>>> >>

\* a file with padded cells, a blank line, a short line, an empty and a
\* non-numeric cell in a numeric column
MessyText ==
  << <<<<" ", "G", "E", "O", "I", "D">>, <<"N", "A", "M", "E", " ">>, H_table_id>>,
     <<<<" ", "3", "2", "0", "0", "3">>, <<" ", "C", "l", "a", "r", "k", " ">>, <<>>>>,
     <<<<" ">>>>,
     <<<<"x", "1">>>> >>

\* a file with a header line only
HeaderOnlyText == << <<H_GEOID, H_NAME>> >>

IndexText(l) ==
  CASE l = "county" -> CountyText
    [] l = "zip" -> ZipText
    [] l = "tract" -> TractText

Callers == {"c1", "c2"}

Init ==
  /\ stateIndexCache = <<>>
  /\ calls = [c \in Callers \cup {ReducerCall} |-> CallIdle]
  /\ fetchCount = [s \in States |-> [l \in Levels |-> 0]]
  /\ settled = {}
  /\ red = RedIdle
  /\ norm = NormIdle
  /\ mt = MatchIdle
  /\ uds = UdsIdle
  /\ ld = LoadIdle
  /\ lk = LookupIdle
  /\ sm = SmartIdle
  /\ dataService = DsNew

---------------------------------------------------------------------------
(* The cache under two concurrent callers *)

\* outcomes of a fetch of the level-l index file: the county and tract files
\* are present, the zip file may be missing
CacheResponses(l) == IF l = "zip" THEN {NotOk, Ok(IndexText(l))} ELSE {Ok(IndexText(l))}

SomeZip == <<"8", "9", "0", "0", "1">>
SomeCounty == <<"C", "l", "a", "r", "k">>

Next ==
  \/ \E c \in Callers, s \in States : StartLoad(c, s)
  \/ \E c \in Callers, l \in Levels : \E r \in CacheResponses(l) : FetchReturn(c, l, r)
  \/ \E c \in Callers, elapsed \in 0..MaxLoadTime : CompleteLoad(c, elapsed)
  \/ \E arg \in States \cup {""} : clearStateCache(arg)
  \/ \E s \in States, level \in {"zip", "county"} : CallGetRedfinId(s, SomeZip, level)
  \/ \E s \in States : CallGetTractsInZip(s, SomeZip)
  \/ \E s \in States : CallGetZipsInCounty(s, SomeCounty)
  \/ \E s \in States, level \in Levels : CallCheckStateCoverage(s, level)
  \/ CallGetLoadedStates
  \/ CallGetCacheStats

Spec == Init /\ [][Next]_vars

---------------------------------------------------------------------------
(* One caller loading one state, every kind of fetch outcome *)

LoadResponses(l) ==
  {Thrown, NotOk, Ok(<<>>), Ok(HeaderOnlyText), Ok(MessyText), Ok(IndexText(l))}

NextLoad ==
  \/ StartLoad("c1", "NV")
  \/ \E l \in Levels : \E r \in LoadResponses(l) : FetchReturn("c1", l, r)
  \/ \E elapsed \in 0..MaxLoadTime : CompleteLoad("c1", elapsed)

SpecLoad == Init /\ [][NextLoad]_vars

---------------------------------------------------------------------------
(* The reduction of a Redfin payload *)

Props(field, value) == field :> value

NoProps == <<>>

\* GeoJSON features by level: an id matching exactly or after normalization,
\* a numeric id, no id
FeatureChoices(level) ==
  CASE level = "zip" ->
         {Props(H_ZIPCODE, Str(<<"8", "9", "0", "0", "1">>)),
          Props(H_ZIPCODE, Str(<<"0", "1", "0", "0", "1">>)),
          NoProps}
    [] level = "county" ->
         {Props(H_GEOID, Str(<<"3", "2", "0", "0", "3">>)),
          Props(H_COUNTYFP, Num(31)),
          NoProps}
    [] OTHER -> {Props(H_GEOID, Str(<<"3", "2", "0", "0", "3", "0", "1">>))}

\* feature lists longer than the sample by at most MaxExtra
MaxExtra == 1

FeatureLengths == (0..2) \cup (SampleLimit..(SampleLimit + MaxExtra))

\* n - 1 copies of one feature followed by another
FeatureLists(level) ==
  {[i \in 1..n |-> IF i < n THEN f1 ELSE f2] :
     n \in FeatureLengths, f1 \in FeatureChoices(level), f2 \in FeatureChoices(level)}

RedfinPayloads ==
  {<<>>,
   <<Props(H_table_id, Num(7)), Props(H_table_id, Str(<<"8">>)), Props(H_table_id, Num(9))>>}

\* either index file the reduction reads may be missing
ReduceResponses(l) == IF l = "tract" THEN {Ok(IndexText(l))} ELSE {NotOk, Ok(IndexText(l))}

NextReduce ==
  \/ \E level \in Levels : \E features \in FeatureLists(level), payload \in RedfinPayloads :
       ReduceCall("NV", level, features, payload)
  \/ \E l \in Levels : \E r \in ReduceResponses(l) : FetchReturn(ReducerCall, l, r)
  \/ CompleteLoad(ReducerCall, 0)
  \/ ReduceResume
  \/ ResolveNext
  \/ ReduceFinish
  \/ clearStateCache("NV")

SpecReduce == Init /\ [][NextReduce]_vars

---------------------------------------------------------------------------
(* The normalizers applied to bounded inputs *)

MaxIdLen == 5

NormChars == {"0", "1", "-", " "}

NormStrings == UNION {[1..n -> NormChars] : n \in 0..MaxIdLen}

NormNumbers == {0, 1, 101, 1001, 10001}

NormInputs ==
  {Str(s) : s \in NormStrings} \cup {Num(n) : n \in NormNumbers} \cup {Null, Undefined, NaN}

\* the optional addStatePrefix argument: absent, a state FIPS code, or empty
NormPrefixes == {Undefined, Str(<<"0", "6">>), Str(<<>>)}

NextNorm ==
  \/ \E zip \in NormInputs : CallNormalizeZipCode(zip)
  \/ CallNormalizeZipCodeAgain
  \/ \E county \in NormInputs : CallNormalizeCountyCode(county)
  \/ \E id \in NormInputs, addStatePrefix \in NormPrefixes : CallNormalizeCountyId(id, addStatePrefix)

SpecNorm == Init /\ [][NextNorm]_vars

---------------------------------------------------------------------------
(* The matcher applied to configured and unknown level/source combinations *)

\* the configured levels, a level of another table, the empty string
MatchLevels == RuleLevels \cup {"city", ""}

\* the configured sources, an unknown source, the empty string
MatchDatabases == RuleDatabases \cup {"zillow", ""}

MatchFeatures ==
  {NoProperties,
   Feature(<<>>),
   Feature(("ZIPCODE" :> Str(<<"8", "9", "0", "0", "1">>))
                     @@ ("GEOID" :> Str(<<"3", "2", "0", "0", "3">>))
                     @@ ("STATE" :> Str(<<"N", "V">>))
                     @@ ("table_id" :> Num(7))),
   Feature([ZIPCODE |-> Str(<<>>), GEOID |-> Null,
            redfin_tableid_zip |-> Str(<<" ", "7">>)]),
   Feature([GEOID |-> Str(<<"0", "6", "0", "3", "7">>)])}

MatchRecordLists ==
  {<<>>,
   <<[zip |-> Str(<<"8", "9", "0", "0", "1">>), state |-> Str(<<"N", "V">>),
      table_id |-> Num(9)],
     [zipcode |-> Num(89001), table_id |-> Str(<<"7", " ">>), GEOID |-> Null]>>,
   <<[state |-> Str(<<"3", "2">>), county |-> Num(3), table_id |-> Num(7)],
     [county |-> Str(<<"3">>), county_fips |-> Str(<<"3", "2", "0", "0", "3">>)]>>,
   <<[county_fips |-> Num(6037), table_id |-> Num(8)]>>}

\* features of a county file, by the width of the id they carry; a feature
\* annotated by an earlier matching, a feature without properties
SmartFeatures ==
  {<<>>,
   <<SmartFeature(Props(FieldChars["GEOID"], Str(<<"0", "6", "0", "3", "7">>)))>>,
   <<SmartFeature(Props(FieldChars["COUNTYFP"], Str(<<"0", "3", "7">>))),
     SmartFeature(Props(FieldChars["GEOID"], Str(<<"3", "2", "0", "0", "3">>)))>>,
   <<SmartFeature(Props(FieldChars["GEOID"], Num(6037))), SmartNoProperties>>,
   <<[SmartFeature(Props(FieldChars["GEOID"], Str(<<"3", "2", "0", "3", "1">>)))
        EXCEPT !.optimized = [set |-> TRUE, row |-> Props(FieldChars["county"], Num(31))]],
     SmartFeature(Props(FieldChars["GEOID"], Str(<<"0", "6", "0", "3", "7">>)))>>,
   <<SmartFeature(Props(FieldChars["GEOID"], Str(<<>>)) @@ Props(FieldChars["NAMELSAD"], Null)),
     SmartFeature(Props(FieldChars["ZIPCODE"], Str(<<" ", "8", "9", "0", "0", "1">>))
                  @@ Props(FieldChars["STUSPS"], Str(<<"C", "A">>)))>>}

\* census rows: two rows that carry the same county in different widths, a
\* row of another state first, rows without a state column
SmartCensusData ==
  {<<>>,
   <<Props(FieldChars["state"], Str(<<"0", "6">>)) @@ Props(FieldChars["county"], Num(6037)),
     Props(FieldChars["state"], Str(<<"0", "6">>))
       @@ Props(FieldChars["county"], Str(<<"0", "3", "7">>))
       @@ Props(FieldChars["county_name"], Str(<<"L", "A">>))>>,
   <<Props(FieldChars["state"], Str(<<"3", "2">>))
       @@ Props(FieldChars["county"], Str(<<"0", "6", "0", "3", "7">>)),
     Props(FieldChars["state"], Str(<<"0", "6">>))
       @@ Props(FieldChars["county"], Str(<<"0", "6", "0", "3", "7", " ">>))
       @@ Props(FieldChars["state_name"], Str(<<"C", "A">>))>>,
   <<Props(FieldChars["zip"], Num(89001)) @@ Props(FieldChars["county"], Null),
     Props(FieldChars["ZIPCODE"], Str(<<"8", "9", "0", "0", "1">>))
       @@ Props(FieldChars["county"], Str(<<"3", "2", "0", "0", "3">>))>>}

SmartArguments(items) == {NotGiven} \cup {Given(i) : i \in items}

SmartLevels == {"county", "zip", "state", "tract", "city"}

SmartStates == {"", "CA", "NV", "ZZ"}

NextMatch ==
  \/ \E level \in MatchLevels, database \in MatchDatabases :
       CallGetDatabaseMatchingFields(level, database)
  \/ \E feature \in MatchFeatures, dataRecords \in MatchRecordLists :
       \E level \in MatchLevels, database \in MatchDatabases :
         CallMatchFeatureToData(feature, dataRecords, level, database)
  \/ \E features \in SmartArguments(SmartFeatures), censusData \in SmartArguments(SmartCensusData) :
       \E level \in SmartLevels, stateAbbrev \in SmartStates :
         CallMatchDataSmart(features, censusData, level, stateAbbrev)

SpecMatch == Init /\ [][NextMatch]_vars

---------------------------------------------------------------------------
(* UnifiedDataService under every outcome of its four requests *)

\* a served redfin_master_index.json other than the mock data: one state, a
\* county, a city and two zip codes, the second without a flat record
ServedIndex ==
  Index(<<StateEntry(<<"T", "e", "x", "a", "s">>, <<"T", "X">>, 4001)>>,
        <<CountyEntry(<<"T", "r", "a", "v", "i", "s", " ", "C", "o", "u", "n", "t", "y", ",", " ", "T", "X">>, <<"T", "r", "a", "v", "i", "s", " ", "C", "o", "u", "n", "t", "y">>, <<"T", "X">>, 4101, <<<<"A", "u", "s", "t", "i", "n">>>>)>>,
        <<CityEntry(<<"A", "u", "s", "t", "i", "n", ",", " ", "T", "X">>, <<"A", "u", "s", "t", "i", "n">>, <<"T", "X">>, 4201)>>,
        <<ZipEntry(<<"7", "8", "7", "0", "1">>, <<"T", "X">>, 78701001), ZipEntry(<<"7", "8", "7", "9", "9">>, <<"T", "X">>, 78799001)>>)

\* served JSON that parses to an object without the taxonomy's members
EmptyObjectIndex == [NoIndex EXCEPT !.loaded = TRUE]

\* the data lines of a served zip_master_index.csv; the last is a record of
\* another state whose county and city names contain those of Texas
ServedRows ==
  <<CsvRow(<<"7", "8", "7", "0", "1">>, <<"T", "X">>, <<"T", "r", "a", "v", "i", "s", " ", "C", "o", "u", "n", "t", "y">>, <<"A", "u", "s", "t", "i", "n">>, <<"A", "u", "s", "t", "i", "n">>, TRUE, TRUE, FALSE, 302711, -977437),
    CsvRow(<<"7", "8", "7", "0", "2">>, <<"T", "X">>, <<"T", "r", "a", "v", "i", "s", " ", "C", "o", "u", "n", "t", "y">>, <<"A", "u", "s", "t", "i", "n">>, <<>>, FALSE, TRUE, TRUE, 302630, -977140),
    CsvRow(<<"8", "9", "1", "0", "1">>, <<"N", "V">>, <<"C", "l", "a", "r", "k", " ", "C", "o", "u", "n", "t", "y">>, <<"L", "a", "s", " ", "V", "e", "g", "a", "s">>, <<"L", "a", "s", " ", "V", "e", "g", "a", "s">>, TRUE, FALSE, TRUE, 361699, -1151398),
    CsvRow(<<"7", "3", "3", "0", "1">>, <<"O", "K">>, <<"T", "R", "A", "V", "I", "S", " ", "C", "O", "U", "N", "T", "Y">>, <<"E", "a", "s", "t", " ", "A", "u", "s", "t", "i", "n">>, <<>>, TRUE, TRUE, TRUE, 350000, -970000)>>

ContentTypes == {"application/json", "text/html", "text/csv", "none"}

HeadResponses ==
  {Response("throw", "none", FALSE, NoIndex, <<>>),
   Response("status", "text/html", FALSE, NoIndex, <<>>)}
  \cup {Response("ok", contentType, FALSE, NoIndex, <<>>) : contentType \in ContentTypes}

\* the body of the JSON file: the taxonomy, an object without its members,
\* the literal null, or text that JSON.parse rejects
RedfinResponses ==
  {Response("throw", "none", FALSE, NoIndex, <<>>),
   Response("status", "text/html", FALSE, NoIndex, <<>>),
   Response("ok", "text/html", FALSE, NoIndex, <<>>),
   Response("ok", "application/json", FALSE, NoIndex, <<>>),
   Response("ok", "application/json", TRUE, NoIndex, <<>>),
   Response("ok", "application/json", TRUE, EmptyObjectIndex, <<>>),
   Response("ok", "application/json", TRUE, ServedIndex, <<>>)}

ZipResponses ==
  {Response("throw", "none", FALSE, NoIndex, <<>>),
   Response("status", "text/html", FALSE, NoIndex, <<>>),
   Response("ok", "text/html", FALSE, NoIndex, <<>>),
   Response("ok", "text/csv", FALSE, NoIndex, <<>>),
   Response("ok", "text/csv", FALSE, NoIndex, ServedRows),
   Response("ok", "none", FALSE, NoIndex, SubSeq(ServedRows, 2, 3))}

QueryOps == {"getStates", "getCountiesInState", "getCitiesInState", "getZipsInState", "getStats"}

QueryStateCodes == {<<"C", "A">>, <<"T", "X">>, <<"Z", "Z">>}

\* getStates and getStats take no argument
QueryArgs(op) == IF op \in {"getStates", "getStats"} THEN {<<>>} ELSE QueryStateCodes

NextUds ==
  \/ InitializeCall
  \/ \E headRedfin \in HeadResponses, headZip \in HeadResponses :
       InitializeChecked(headRedfin, headZip)
  \/ \E resp \in RedfinResponses : InitializeRedfinLoaded(resp)
  \/ \E resp \in ZipResponses : InitializeZipLoaded(resp)
  \/ \E op \in QueryOps : \E arg \in QueryArgs(op) : Query(op, arg)

SpecUds == Init /\ [][NextUds]_vars

---------------------------------------------------------------------------
(* loadDataWithCloudflare under every outcome of its four fetches *)

LoadStates == {"NV", "ZZ"}

LoadLevels == {"state", "county", "zip", "tract"}

ViewModes == {"", "county"}

\* the features of the GeoJSON file of a level
LoadFeatures(level) ==
  CASE level = "zip" -> <<Props(H_ZIPCODE, Str(<<"8", "9", "0", "0", "1">>)),
                          Props(H_ZIPCODE, Str(<<"8", "9", "9", "9", "9">>))>>
    [] level = "county" -> <<Props(H_GEOID, Str(<<"3", "2", "0", "0", "3">>)),
                             Props(H_GEOID, Str(<<"3", "2", "0", "3", "1">>))>>
    [] OTHER -> <<Props(H_GEOID, Str(<<"3", "2">>))>>

GeoJsonResponses(level) ==
  {DataResponse("throw", FALSE, FALSE, FALSE, <<>>),
   DataResponse("status", FALSE, FALSE, FALSE, <<>>),
   DataResponse("ok", FALSE, FALSE, FALSE, <<>>),
   DataResponse("ok", TRUE, FALSE, FALSE, <<>>),
   DataResponse("ok", TRUE, FALSE, TRUE, LoadFeatures(level))}

\* rows of a census or FRED file
LoadRows ==
  <<Props(H_GEOID, Str(<<"3", "2", "0", "0", "3">>))
      @@ Props(FieldChars["state"], Str(<<"3", "2">>))
      @@ Props(FieldChars["county"], Str(<<"0", "0", "3">>))
      @@ Props(FieldChars["zip"], Num(89001))>>

RowResponses ==
  {DataResponse("status", FALSE, FALSE, FALSE, <<>>),
   DataResponse("ok", FALSE, FALSE, FALSE, <<>>),
   DataResponse("ok", TRUE, TRUE, FALSE, LoadRows),
   DataResponse("ok", TRUE, FALSE, FALSE, LoadRows)}

\* Redfin records: all residential, a property type that is dropped, no type
LoadRedfinRecords ==
  <<Props(H_table_id, Num(7)) @@ Props(H_property_type_id, Num(-1)),
    Props(H_table_id, Num(8)) @@ Props(H_property_type_id, Num(4)),
    Props(H_table_id, Num(9))>>

RedfinDataResponses ==
  {DataResponse("throw", FALSE, FALSE, FALSE, <<>>),
   DataResponse("ok", TRUE, TRUE, FALSE, LoadRedfinRecords)}

NextLd ==
  \/ \E s \in LoadStates, level \in LoadLevels, mode \in ViewModes : LoadCall(s, level, mode)
  \/ \E resp \in GeoJsonResponses(ld.level) : GeoJsonSettled(resp)
  \/ \E resp \in RowResponses : CensusSettled(resp)
  \/ \E resp \in RowResponses : FredSettled(resp)
  \/ \E resp \in RedfinDataResponses : RedfinSettled(resp)
  \/ \E resp \in RedfinDataResponses : RedfinSettledIndexed(resp)
  \/ \E l \in Levels : \E r \in ReduceResponses(l) : FetchReturn(ReducerCall, l, r)
  \/ \E elapsed \in 0..MaxLoadTime : CompleteLoad(ReducerCall, elapsed)
  \/ ReduceResume
  \/ ResolveNext
  \/ ReduceFinish
  \/ RedfinReduced

SpecLd == Init /\ [][NextLd]_vars

---------------------------------------------------------------------------
(* getRedfinId on a loaded county and zip index *)

\* a county index in which the identifier 3 is the county code of the first
\* row after normalization and a part of the name of the second row only
LookupCountyText ==
  << <<H_GEOID, H_COUNTYFP, H_NAME, H_table_id>>,
     <<<<"3", "2", "0", "0", "3">>, <<"0", "0", "3">>, <<"C", "l", "a", "r", "k">>, <<"7">>>>,
     <<<<"3", "2", "5", "1", "0">>, <<"5", "1", "0">>, <<"A", "r", "e", "a", " ", "3">>, <<"9">>>>,
     <<<<"3", "2", "0", "3", "1">>, <<"0", "3", "1">>, <<"W", "a", "s", "h", "o", "e">>, <<"8">>>> >>

LookupResponses(l) ==
  IF l = "county" THEN {NotOk, Ok(CountyText), Ok(LookupCountyText)}
  ELSE IF l = "zip" THEN {NotOk, Ok(ZipText)}
  ELSE {Ok(TractText)}

\* identifiers: an exact GEOID, an unpadded and a padded county code, a
\* county name, a ZIP code with and without its leading zero, an unknown id
LookupAreas ==
  {<<"3", "2", "0", "0", "3">>, <<"3">>, <<"3", "1">>, <<"0", "0", "3">>, <<"c", "l", "a", "r", "k">>, <<"8", "9", "0", "0", "1">>,
   <<"0", "1", "0", "0", "1">>, <<"1", "0", "0", "1">>, <<"9", "9", "9">>}

NextLookup ==
  \/ StartLoad("c1", "NV")
  \/ \E l \in Levels : \E r \in LookupResponses(l) : FetchReturn("c1", l, r)
  \/ \E elapsed \in 0..MaxLoadTime : CompleteLoad("c1", elapsed)
  \/ clearStateCache("NV")
  \/ \E area \in LookupAreas, level \in {"county", "zip"} : LookupRedfinId("NV", area, level)

SpecLookup == Init /\ [][NextLookup]_vars

---------------------------------------------------------------------------
(* Evictions and reads of the cache, one caller loading both states *)

NextObs ==
  \/ \E s \in States : StartLoad("c1", s)
  \/ \E l \in Levels : \E r \in CacheResponses(l) : FetchReturn("c1", l, r)
  \/ \E elapsed \in 0..MaxLoadTime : CompleteLoad("c1", elapsed)
  \/ \E arg \in States \cup {""} : clearStateCache(arg)
  \/ \E s \in States, level \in {"county", "zip"} : LookupRedfinId(s, SomeZip, level)
  \/ \E s \in States : ReadTractsInZip(s, SomeZip)
  \/ \E s \in States : ReadZipsInCounty(s, SomeCounty)
  \/ \E s \in States, level \in Levels : ReadStateCoverage(s, level)
  \/ ReadLoadedStates
  \/ ReadCacheStats

SpecObs == Init /\ [][NextObs]_vars

---------------------------------------------------------------------------
(* DataService under two callers *)

\* a known state and a state missing from the resolver's STATES
DsStates == {"NV", "ZZ"}

DsLevels == {"county", "zip"}

\* an empty array and an array of one row
DsBodies == {<<>>, <<[GEOID |-> "32003"]>>}

DsResponses ==
  {DsResponse(TRUE, FALSE, "", FALSE, <<>>),
   DsResponse(FALSE, FALSE, "404", FALSE, <<>>),
   DsResponse(FALSE, TRUE, "200", FALSE, <<>>)}
  \cup {DsResponse(FALSE, TRUE, "200", TRUE, body) : body \in DsBodies}

NextDs ==
  \/ \E c \in DsCallers, s \in DsStates, level \in DsLevels : loadCensusData(c, s, level)
  \/ \E c \in DsCallers, s \in DsStates, level \in DsLevels : loadGeoJsonData(c, s, level)
  \/ \E c \in DsCallers, s \in DsStates : loadFredData(c, s)
  \/ \E c \in DsCallers, s \in DsStates : loadRedfinData(c, s)
  \/ \E c \in DsCallers, response \in DsResponses : DsSettle(c, response)
  \/ clearCache

SpecDs == Init /\ [][NextDs]_vars

---------------------------------------------------------------------------
(* Claims about the state-scoped index cache *)

\* caller c begins a loadStateIndexes(s) call in this step
Begins(c, s) ==
  /\ calls[c].pc \in {"idle", "done"}
  /\ calls'[c] # calls[c]
  /\ calls'[c].stateAbbrev = s

\* C1: a loadStateIndexes(s) call that begins after a call for s has returned,
\* with no eviction of s since, issues no fetch; a call that begins before any
\* has returned issues exactly one fetch of each of the three index files of s
\* and none of another state.
C1_SingleLoad ==
  [][\A c \in DOMAIN calls, s \in States :
       Begins(c, s) =>
         IF s \in settled
         THEN fetchCount' = fetchCount
         ELSE /\ \A l \in Levels : fetchCount'[s][l] = fetchCount[s][l] + 1
              /\ \A o \in States \ {s} : fetchCount'[o] = fetchCount[o]]_vars

\* C1 witness: a second call for a state has returned true from the cache, and
\* each index file of the state has been fetched exactly once.
C1_Witness ==
  \E c \in Callers :
    /\ calls[c].pc = "done" /\ ~calls[c].fetched /\ calls[c].ret
    /\ \A l \in Levels : fetchCount[calls[c].stateAbbrev][l] = 1
    /\ \A d \in Callers : calls[d].pc # "loading"

\* C2 (as claimed): in every step that is not an eviction of s, an entry held
\* for s keeps its counties, zips and tracts collections.
C2_EntryImmutable ==
  [][\A s \in States :
       MapHas(stateIndexCache, s) /\ MapHas(stateIndexCache', s) =>
         /\ MapGet(stateIndexCache', s).counties = MapGet(stateIndexCache, s).counties
         /\ MapGet(stateIndexCache', s).zips = MapGet(stateIndexCache, s).zips
         /\ MapGet(stateIndexCache', s).tracts = MapGet(stateIndexCache, s).tracts]_vars

\* the rows a text parses to: one record per non-blank line after the header line
ParsedRows(text) ==
  LET lines == SelectSeq(text, NonBlank)
  IN  IF lines = <<>> THEN <<>>
      ELSE [k \in 1..(Len(lines) - 1) |->
              ParseLine([i \in 1..Len(lines[1]) |-> Trim(lines[1][i])], lines[k + 1])]

\* what the claim expects in the entry for a fetch outcome
ExpectedRows(resp) == IF resp.kind \in {"throw", "status"} THEN <<>> ELSE ParsedRows(resp.text)

\* C3: a loadStateIndexes call that fetched has returned true and inserted an
\* entry in which every file whose fetch failed (thrown, or a non-OK status) is
\* an empty collection and every other file holds the rows parsed from its text.
C3_FailedFileIsEmpty ==
  \A c \in DOMAIN calls :
    calls[c].pc = "done" /\ calls[c].fetched =>
      /\ calls[c].ret
      /\ MapHas(stateIndexCache, calls[c].stateAbbrev)
      /\ LET entry == MapGet(stateIndexCache, calls[c].stateAbbrev)
         IN  /\ entry.counties = ExpectedRows(calls[c].resp["county"])
             /\ entry.zips = ExpectedRows(calls[c].resp["zip"])
             /\ entry.tracts = ExpectedRows(calls[c].resp["tract"])

\* C3 witness: the county fetch threw, the zip fetch had a non-OK status, the
\* tract fetch succeeded; the entry holds the tract rows only.
C3_Witness ==
  /\ calls["c1"].pc = "done" /\ calls["c1"].ret
  /\ calls["c1"].resp["county"] = Thrown
  /\ calls["c1"].resp["zip"] = NotOk
  /\ calls["c1"].resp["tract"] = Ok(TractText)
  /\ MapHas(stateIndexCache, "NV")
  /\ MapGet(stateIndexCache, "NV").counties = <<>>
  /\ MapGet(stateIndexCache, "NV").zips = <<>>
  /\ Len(MapGet(stateIndexCache, "NV").tracts) = 1

\* C4: an entry leaves the cache only in a clearStateCache(s) or
\* clearStateCache() step (no load, lookup or projection removes it), and index
\* files of s are fetched only in a step that begins with no entry for s.
C4_RetainedUntilEviction ==
  [][\A s \in States :
       /\ MapHas(stateIndexCache, s) /\ ~MapHas(stateIndexCache', s) =>
            clearStateCache(s) \/ clearStateCache("")
       /\ fetchCount'[s] # fetchCount[s] => ~MapHas(stateIndexCache, s)]_vars

\* C4 witness: the files of NV were fetched twice although no two calls for NV
\* overlapped (the entry of CA, loaded by the other caller, precedes the entry
\* of NV): NV was evicted and a later call loaded it again.
C4_Witness ==
  /\ \A c \in Callers : calls[c].pc = "done" /\ calls[c].fetched
  /\ calls["c1"].stateAbbrev = "NV" /\ calls["c2"].stateAbbrev = "CA"
  /\ MapKeys(stateIndexCache) = <<"CA", "NV">>
  /\ \A l \in Levels : fetchCount["NV"][l] = 2 /\ fetchCount["CA"][l] = 1

---------------------------------------------------------------------------
(* Claims about the index-driven reduction *)

C6_EmptyIdsUnfiltered ==
  red.pc = "done" /\ red.relevantIds = <<>> => red.result = red.redfinData

\* C6 witness: the zip index failed to load, so a zip feature that carries an
\* id resolved to nothing; the three records are all returned.
C6_Witness ==
  /\ red.pc = "done" /\ red.level = "zip" /\ red.relevantIds = <<>> /\ red.sawEntry
  /\ MapHas(stateIndexCache, red.stateAbbrev)
  /\ MapGet(stateIndexCache, red.stateAbbrev).zips = <<>>
  /\ Len(red.redfinData) = 3 /\ Len(red.result) = 3

\* the id feature i of the reduction resolves to through the cached index
ResolvedId(i) ==
  LET areaId == FeatureAreaId(red.geoJsonFeatures[i], red.level)
  IN  IF Falsy(areaId) THEN Null
      ELSE getRedfinId(stateIndexCache, red.stateAbbrev, ValueToString(areaId), red.level)

\* record k of the input is in the output
Kept(k) == \E j \in 1..Len(red.result) : red.result[j] = red.redfinData[k]

\* C7 (as claimed): every record whose table_id is the id some input feature,
\* at any position of the list, resolves to through the cached index is kept.
C7_KeepsEveryMatch ==
  red.pc = "done" =>
    \A i \in 1..Len(red.geoJsonFeatures), k \in 1..Len(red.redfinData) :
      /\ ~Falsy(ResolvedId(i))
      /\ ParseInt(Prop(red.redfinData[k], H_table_id)) = ResolvedId(i)
      => Kept(k)

---------------------------------------------------------------------------
(* Claims about the identifier normalizers *)

Zeros(n) == [i \in 1..n |-> "0"]

\* the digits of the text of a value, in order
DigitsOf(v) == SelectSeq(ValueToString(v), IsDigit)

\* the digits left-padded with "0" to at least n characters
ZeroPadded(ds, n) == IF Len(ds) >= n THEN ds ELSE Zeros(n - Len(ds)) \o ds

Elements(xs) == {xs[i] : i \in 1..Len(xs)}

\* C8 (as claimed): for every string, ZIP normalization returns the digits of
\* the string left-padded with "0" to 5 digits.
C8_StripAndPadEveryString ==
  norm.op = "zip" /\ norm.arg.t = "str" =>
    norm.out = ZeroPadded(DigitsOf(norm.arg), 5)

\* C8 (amended): ZIP normalization returns the empty string for an empty
\* string, null, undefined or NaN, and for every other input the digits of its
\* text left-padded with "0" to 5 digits; normalizing the result again returns
\* it unchanged, and a string of exactly 5 digits is returned as it is.
C8_ZipNormalization ==
  /\ norm.op = "zip" =>
       /\ IF norm.arg.t \in {"null", "undef", "nan"} \/ norm.arg = Str(<<>>)
          THEN norm.out = <<>>
          ELSE norm.out = ZeroPadded(DigitsOf(norm.arg), 5)
       /\ norm.arg.t = "str" /\ Len(norm.arg.s) = 5 /\ DigitsOf(norm.arg) = norm.arg.s
            => norm.out = norm.arg.s
  /\ norm.op = "zipAgain" => norm.out = norm.prev

\* C8 witness: "1-01" was normalized to "00101", and normalizing that again
\* returned "00101".
C8_Witness ==
  /\ norm.op = "zipAgain"
  /\ norm.arg = Str(<<"1", "-", "0", "1">>)
  /\ norm.prev = <<"0", "0", "1", "0", "1">>
  /\ norm.out = <<"0", "0", "1", "0", "1">>

C10_ShortCodeIsPadded ==
  norm.op = "countyId" /\ norm.arg = Str(<<"1">>) /\ norm.prefix = Str(<<"0", "6">>) =>
    <<"0", "6", "0", "0", "1">> \in Elements(norm.out)

---------------------------------------------------------------------------
(* Claims about the matching rule table *)

---------------------------------------------------------------------------
(* Claims about UnifiedDataService *)

\* the flat records whose zipcode member reads as the zip code
FlatRecordsOf(zipMasterData, code) ==
  SelectSeq(zipMasterData, LAMBDA record : ValueToString(record.zipcode) = code)

\* C12 (as claimed): after initialize(), for each zip node of the taxonomy the
\* location under zip:<code> exists; it has the coordinates and the three
\* flags of a flat record with that zip code when there is one, and
\* coordinates (0,0) and three false flags when there is none.
C12_ZipLocationFromFlatRecord ==
  uds.pc = "done" /\ uds.redfInIndex.loaded /\ uds.redfInIndex.wellFormed =>
    \A i \in 1..Len(uds.redfInIndex.zip_codes) :
      LET code == uds.redfInIndex.zip_codes[i].key
          key == <<"z", "i", "p", ":">> \o code
          flat == FlatRecordsOf(uds.zipMasterData, code)
      IN  /\ MapHas(uds.unifiedLookup, key)
          /\ LET loc == MapGet(uds.unifiedLookup, key)
             IN  IF flat = <<>>
                 THEN /\ loc.coordinates = <<0, 0>>
                      /\ loc.hasData = [census |-> FALSE, redfin |-> FALSE, geometry |-> FALSE]
                 ELSE \E j \in 1..Len(flat) :
                        /\ loc.coordinates = <<flat[j].INTPTLAT, flat[j].INTPTLON>>
                        /\ loc.hasData = [census |-> flat[j].has_census_data,
                                          redfin |-> flat[j].has_redfin_data,
                                          geometry |-> flat[j].has_geometry]

\* the levels whose listing query returns loc
ListedLevels(lookup, loc) ==
  LET In(out) == \E i \in 1..Len(out) : out[i] = loc
  IN  {level \in StatsTypes :
         \/ level = "state" /\ In(getStates(lookup))
         \/ level = "county" /\ In(getCountiesInState(lookup, loc.stateCode))
         \/ level = "city" /\ In(getCitiesInState(lookup, loc.stateCode))
         \/ level = "zip" /\ In(getZipsInState(lookup, loc.stateCode))}

\* C13 (as claimed): getStats counts a location as state, zip, county or city
\* by the segments of its path, its zip code and the word County, and the
\* listing queries return the location at that level and at no other.
C13_ListingsAgreeWithStats ==
  uds.isLoaded =>
    \A i \in 1..Len(uds.unifiedLookup) :
      LET loc == uds.unifiedLookup[i].data
          parts == Split(loc.hierarchicalPath, PathSeparator)
          level == IF Len(parts) = 1 THEN "state"
                   ELSE IF Len(parts) = 2 /\ loc.zipCode.t = "str" /\ loc.zipCode.s # <<>> THEN "zip"
                   ELSE IF Len(parts) = 2 /\ Includes(parts[2], CountyWord) THEN "county"
                   ELSE "city"
      IN  /\ StatsType(loc) = level
          /\ ListedLevels(uds.unifiedLookup, loc) = {level}

\* C14 (as claimed): an initialize() that did not obtain the taxonomy leaves
\* the index holding every location of the substitute dataset.
C14_SubstituteWithoutTaxonomy ==
  uds.pc = "done" /\ ~uds.run.taxonomyLoaded =>
    LET substitute == buildUnifiedLookup(MockIndex, MockZips, <<>>).lookup
    IN  \A i \in 1..Len(substitute) :
          /\ MapHas(uds.unifiedLookup, substitute[i].key)
          /\ MapGet(uds.unifiedLookup, substitute[i].key) = substitute[i].data

\* C15: whatever the HEAD checks and the two GETs answer, a finished
\* initialize() has not raised to its caller and has set isLoaded, and from
\* then on no listing query and no getStats throws
C15_InitializeNeverRaises ==
  /\ uds.pc = "done" => ~uds.run.raised /\ uds.isLoaded
  /\ uds.run.checked /\ uds.pc = "done" =>
       \A op \in QueryOps : \A arg \in QueryArgs(op) : ~RunQuery(uds, op, arg).threw

\* C15 witness: both HEAD checks passed, the taxonomy was fetched, the GET of
\* the flat file failed, initialize() returned and getStates then answered
C15_Witness ==
  /\ uds.pc = "done"
  /\ uds.fileChecks.redfin /\ uds.fileChecks.zip
  /\ uds.run.taxonomyLoaded /\ ~uds.run.flatLoaded /\ uds.run.fellBack
  /\ uds.query.op = "getStates" /\ ~uds.query.threw /\ uds.query.out # <<>>

---------------------------------------------------------------------------
(* Claims about loadDataWithCloudflare *)

C19_IssuedTogether ==
  (\E k \in Sources : ld.loadingStatus[k] = "loading") =>
    \A k \in Sources : ld.loadingStatus[k] # "not-attempted"

---------------------------------------------------------------------------
(* Claims about concurrent loads of one state *)

\* C17: no in-flight load is shared: a call for a state that has no entry,
\* begun while another call is loading that same state, issues its own fetch
\* of each of the three index files.
C17_NoSharedInFlightLoad ==
  [][\A c \in Callers, d \in Callers, s \in States :
       /\ c # d
       /\ calls[d].pc = "loading" /\ calls[d].stateAbbrev = s
       /\ ~MapHas(stateIndexCache, s)
       /\ calls[c].pc \in {"idle", "done"}
       /\ calls'[c] # calls[c] /\ calls'[c].stateAbbrev = s
       => /\ calls'[c].pc = "loading" /\ calls'[c].fetched
          /\ \A l \in Levels : fetchCount'[s][l] = fetchCount[s][l] + 1]_vars

\* C17 witness: two calls for NV are both loading, neither has completed, and
\* each of the three index files of NV has been fetched twice
C17_Witness ==
  /\ \A c \in Callers : /\ calls[c].pc = "loading" /\ calls[c].stateAbbrev = "NV"
                        /\ calls[c].fetched
  /\ ~MapHas(stateIndexCache, "NV")
  /\ \A l \in Levels : fetchCount["NV"][l] = 2

---------------------------------------------------------------------------
(* Claims about the fallback order of getRedfinId *)

\* the table id the claimed order resolves a county identifier to: the first
\* record matching exactly (GEOID or fred_county_fips), else the first
\* matching after normalization, else the first matching by name substring
ClaimedCountyResolution(stateData, area) ==
  LET rows == stateData.counties
      At == 1..Len(rows)
      Exact(i) == \/ StrictEq(Prop(rows[i], H_GEOID), Str(area))
                  \/ StrictEq(Prop(rows[i], H_fred_county_fips), Str(area))
      Normalized(i) ==
        normalizeCountyCode(OrElse(Prop(rows[i], H_COUNTYFP), Prop(rows[i], H_GEOID)))
          = normalizeCountyCode(Str(area))
      ByName(i) == \/ OptNameIncludes(Prop(rows[i], H_NAME), area)
                   \/ OptNameIncludes(Prop(rows[i], H_NAMELSAD), area)
                   \/ OptNameIncludes(Prop(rows[i], H_region), area)
      First(S) == CHOOSE i \in S : \A j \in S : i <= j
      exact == {i \in At : Exact(i)}
      normalized == {i \in At : Normalized(i)}
      named == {i \in At : ByName(i)}
      TableId(i) == ParseInt(Prop(rows[i], H_table_id))
  IN  IF exact # {} THEN TableId(First(exact))
      ELSE IF normalized # {} THEN TableId(First(normalized))
      ELSE IF named # {} THEN TableId(First(named))
      ELSE Null

\* C20 (as claimed): a county identifier resolves through the cached index
\* by exact match first, normalized match second and name substring last.
C20_ExactNormalizedName ==
  lk.op = "getRedfinId" /\ lk.level = "county" /\ lk.entry # <<>> =>
    lk.out = ClaimedCountyResolution(lk.entry[1], lk.area)

---------------------------------------------------------------------------
(* Claims about the matchers *)

\* the feature has no identifier field that is present and non-empty
NoIdentifier(props, fields) ==
  \A i \in 1..Len(fields) :
    LET id == Prop(props, fields[i]) IN IsNullish(id) \/ id = Str(<<>>)

\* row i of the records satisfies some (feature id, data field) pair of matchFeatureToData
Satisfies(i) ==
  LET featureIds == FeatureIds(mt.feature.properties, mt.rules.featureFields)
  IN  \E f \in 1..Len(featureIds), d \in 1..Len(mt.rules.dataFields) :
        FieldMatches(mt.dataRecords[i], featureIds[f], mt.rules.dataFields[d], mt.level,
                     mt.database)

\* row k of the scanned rows satisfies some pair of matchDataSmart for feature i
SmartSatisfies(i, k) ==
  LET rules == getDatabaseMatchingFields(sm.level, "census")
      featureIds == FeatureIds(sm.features.items[i].properties, Columns(rules.featureFields))
  IN  SmartRowMatches(sm.out.relevantData[k], featureIds, rules.dataFields, sm.level,
                      sm.stateAbbrev)

\* C21: first match wins.  The result of matchFeatureToData, and the row
\* matchDataSmart finds for each feature it visits, is the first row of the
\* scanned array that satisfies any (feature id, data field) pair: no earlier
\* row satisfies one, there is no result only when no row does, and a feature
\* without a non-empty identifier field gets no match.
C21_FirstMatchWins ==
  /\ mt.op = "match" /\ mt.out # Raised =>
       /\ mt.out.kind = "row" =>
            /\ Satisfies(mt.out.row)
            /\ \A j \in 1..(mt.out.row - 1) : ~Satisfies(j)
       /\ mt.out = NoMatch /\ ~NoIdentifier(mt.feature.properties, mt.rules.featureFields) =>
            \A j \in 1..Len(mt.dataRecords) : ~Satisfies(j)
       /\ NoIdentifier(mt.feature.properties, mt.rules.featureFields) => mt.out = NoMatch
  /\ sm.op = "smart" =>
       \A i \in 1..Len(sm.out.found) :
         LET k == sm.out.found[i]
             fields == Columns(getDatabaseMatchingFields(sm.level, "census").featureFields)
             none == NoIdentifier(sm.features.items[i].properties, fields)
         IN  /\ k > 0 => SmartSatisfies(i, k) /\ \A j \in 1..(k - 1) : ~SmartSatisfies(i, j)
             /\ k = 0 /\ ~none => \A j \in 1..Len(sm.out.relevantData) : ~SmartSatisfies(i, j)
             /\ none => k = 0

\* C21 witness: both census rows of a county file satisfy a pair for the
\* feature (the county in two widths); matchDataSmart took the first.
C21_Witness ==
  /\ sm.op = "smart" /\ sm.level = "county"
  /\ Len(sm.out.relevantData) = 2
  /\ Len(sm.out.found) >= 1
  /\ sm.out.found[1] = 1
  /\ SmartSatisfies(1, 1) /\ SmartSatisfies(1, 2)

\* the matching rule of the specification for one feature id and one data
\* value: at county level their candidate forms intersect, at every other
\* level their trimmed strings are equal
ClaimedPairMatch(level, featureId, dataValue, stateFips) ==
  IF level = "county"
  THEN LET featureForms == normalizeCountyId(Str(featureId), stateFips)
           dataForms == normalizeCountyId(dataValue, stateFips)
       IN  Elements(featureForms) \cap Elements(dataForms) # {}
  ELSE Trim(ValueToString(dataValue)) = featureId

\* C22: a feature id and a data value that is present match exactly when, at
\* county level, their normalizeCountyId candidate sets intersect and, at
\* every other level, their trimmed string forms are equal; in
\* matchFeatureToData and in matchDataSmart alike.
C22_CountyExpandedOthersExact ==
  /\ mt.op = "match" /\ mt.out # Raised =>
       LET featureIds == FeatureIds(mt.feature.properties, mt.rules.featureFields)
       IN  \A i \in 1..Len(mt.dataRecords), f \in 1..Len(featureIds),
              d \in 1..Len(mt.rules.dataFields) :
             LET dataValue == Prop(mt.dataRecords[i], mt.rules.dataFields[d])
             IN  ~IsNullish(dataValue) =>
                   (FieldMatches(mt.dataRecords[i], featureIds[f], mt.rules.dataFields[d],
                                 mt.level, mt.database)
                      <=> ClaimedPairMatch(mt.level, featureIds[f], dataValue, Undefined))
  /\ sm.op = "smart" =>
       LET rules == getDatabaseMatchingFields(sm.level, "census")
       IN  \A i \in 1..Len(sm.out.found), k \in 1..Len(sm.out.relevantData),
              d \in 1..Len(rules.dataFields) :
             LET featureIds == FeatureIds(sm.features.items[i].properties,
                                          Columns(rules.featureFields))
                 dataValue == Prop(sm.out.relevantData[k], FieldChars[rules.dataFields[d]])
             IN  \A f \in 1..Len(featureIds) :
                   ~IsNullish(dataValue) =>
                     (SmartFieldMatches(sm.out.relevantData[k], featureIds[f],
                                        rules.dataFields[d], sm.level, sm.stateAbbrev)
                        <=> ClaimedPairMatch(sm.level, featureIds[f], dataValue,
                                             fredCode(sm.stateAbbrev)))

\* the rows of a sequence, as a set
RowsOf(rows) == {rows[i] : i \in 1..Len(rows)}

\* C23: matching returns at most one record per feature and changes nothing
\* but the annotation of a matched feature.  matchFeatureToData leaves the
\* feature and the records as they were and returns null or one of the
\* records; matchDataSmart leaves the census array and its rows as they were,
\* and a feature differs after the call only in its _optimized_data, only
\* when a row was found for it, and then it holds the projection of that one
\* row, which is a row of the census array.
C23_OnlyAnnotatesMatched ==
  /\ mt.op = "match" =>
       /\ mt.featureAfter = mt.feature
       /\ mt.recordsAfter = mt.dataRecords
       /\ mt.out.kind = "row" => mt.out.row \in 1..Len(mt.dataRecords)
  /\ sm.op = "smart" =>
       /\ sm.out.censusData = sm.censusData.items
       /\ Len(sm.out.features) = Len(sm.features.items)
       /\ sm.out.matchedCount = Cardinality({i \in 1..Len(sm.out.found) : sm.out.found[i] > 0})
       /\ \A i \in 1..Len(sm.out.features) :
            LET before == sm.features.items[i]
                after == sm.out.features[i]
            IN  /\ after.hasProperties = before.hasProperties
                /\ after.properties = before.properties
                /\ after # before =>
                     /\ i <= Len(sm.out.found)
                     /\ sm.out.found[i] > 0
                     /\ sm.out.relevantData[sm.out.found[i]] \in RowsOf(sm.censusData.items)
                     /\ after.optimized =
                          [set |-> TRUE,
                           row |-> filterToEssentialColumns(
                                     <<sm.out.relevantData[sm.out.found[i]]>>, sm.level)[1]]

\* C23 witness: of two features the first, annotated by an earlier matching,
\* found no row and is as it was, the second found a row and was annotated;
\* the two census rows are as they were.
C23_Witness ==
  /\ sm.op = "smart"
  /\ Len(sm.out.found) = 2
  /\ Len(sm.censusData.items) = 2
  /\ sm.out.found[1] = 0 /\ sm.out.found[2] > 0
  /\ sm.features.items[1].optimized.set
  /\ sm.out.features[1] = sm.features.items[1]
  /\ sm.out.features[2] # sm.features.items[2]
  /\ sm.out.features[2].optimized.set
  /\ sm.out.censusData = sm.censusData.items

---------------------------------------------------------------------------
(* Claims about the aggregation of flat records *)

\* the k-th smallest member of a set of positions
NthOf(positions, k) ==
  CHOOSE j \in positions : Cardinality({x \in positions : x < j}) = k - 1

\* what the specification aggregates over the flat records at the given
\* positions, in input order
Aggregate(zipMasterData, positions) ==
  [coordinates |-> IF positions = {} THEN <<0, 0>>
                   ELSE LET first == NthOf(positions, 1)
                        IN  <<zipMasterData[first].INTPTLAT, zipMasterData[first].INTPTLON>>,
   hasData |-> [census |-> \E j \in positions : zipMasterData[j].has_census_data,
                redfin |-> \E j \in positions : zipMasterData[j].has_redfin_data,
                geometry |-> \E j \in positions : zipMasterData[j].has_geometry],
   childZips |-> [k \in 1..Cardinality(positions) |->
                    zipMasterData[NthOf(positions, k)].zipcode]]

\* the members of a location that are aggregated
AggregateOf(loc) ==
  [coordinates |-> loc.coordinates, hasData |-> loc.hasData, childZips |-> loc.childZips]

\* C24: after initialize(), the node of each state of the taxonomy aggregates
\* exactly the flat records with its state code: the coordinates of the first
\* of them in input order ((0,0) without one), each flag the OR of the flag
\* over them, childZips their zip codes in input order.
C24_StateAggregation ==
  uds.pc = "done" /\ uds.redfInIndex.loaded /\ uds.redfInIndex.wellFormed =>
    \A i \in 1..Len(uds.redfInIndex.states) :
      LET code == uds.redfInIndex.states[i].state_code
          key == <<"s", "t", "a", "t", "e", ":">> \o code
          positions == {j \in 1..Len(uds.zipMasterData) : uds.zipMasterData[j].state_code = code}
      IN  /\ MapHas(uds.unifiedLookup, key)
          /\ MapGet(uds.unifiedLookup, key).stateCode = code
          /\ AggregateOf(MapGet(uds.unifiedLookup, key)) = Aggregate(uds.zipMasterData, positions)

\* C24 witness: the served taxonomy and flat file were loaded; the node of
\* Texas aggregates two records, takes the coordinates of the first and has a
\* flag the first record does not have.
C24_Witness ==
  /\ uds.pc = "done" /\ uds.run.taxonomyLoaded /\ uds.run.flatLoaded
  /\ MapHas(uds.unifiedLookup, <<"s", "t", "a", "t", "e", ":", "T", "X">>)
  /\ LET loc == MapGet(uds.unifiedLookup, <<"s", "t", "a", "t", "e", ":", "T", "X">>)
     IN  /\ Len(loc.childZips) = 2
         /\ Len(uds.zipMasterData) = 4
         /\ loc.coordinates = <<uds.zipMasterData[1].INTPTLAT, uds.zipMasterData[1].INTPTLON>>
         /\ loc.coordinates # <<uds.zipMasterData[2].INTPTLAT, uds.zipMasterData[2].INTPTLON>>
         /\ loc.hasData.geometry /\ ~uds.zipMasterData[1].has_geometry

\* text contains, without regard to case, the first comma-delimited segment of name
ContainsSegment(text, name) ==
  text.t = "str" /\ Includes(ToLowerCase(text.s), ToLowerCase(Split(name, <<",">>)[1]))

\* the node takes its childZips, coordinates and flags from the flat records
\* at the given positions only
TakenFrom(loc, zipMasterData, positions) ==
  /\ \A k \in 1..Len(loc.childZips) :
       \E j \in positions : zipMasterData[j].zipcode = loc.childZips[k]
  /\ \/ positions = {} /\ loc.coordinates = <<0, 0>>
     \/ \E j \in positions :
          loc.coordinates = <<zipMasterData[j].INTPTLAT, zipMasterData[j].INTPTLON>>
  /\ loc.hasData.census => \E j \in positions : zipMasterData[j].has_census_data
  /\ loc.hasData.redfin => \E j \in positions : zipMasterData[j].has_redfin_data
  /\ loc.hasData.geometry => \E j \in positions : zipMasterData[j].has_geometry

\* C25: after initialize(), the node of each county and city of the taxonomy
\* takes its childZips, its coordinates and its flags only from flat records
\* of its own state whose redfin_county_name (county) or redfin_city or
\* census_city (city) contains, without regard to case, the first
\* comma-delimited segment of the node's name.
C25_MembersOfOwnState ==
  uds.pc = "done" /\ uds.redfInIndex.loaded /\ uds.redfInIndex.wellFormed =>
    LET flat == uds.zipMasterData
    IN  /\ \A i \in 1..Len(uds.redfInIndex.counties) :
             LET info == uds.redfInIndex.counties[i]
                 key == <<"c", "o", "u", "n", "t", "y", ":">> \o info.key
                 own == {j \in 1..Len(flat) :
                           /\ flat[j].state_code = info.state_code
                           /\ ContainsSegment(flat[j].redfin_county_name, info.county_name)}
             IN  /\ MapHas(uds.unifiedLookup, key)
                 /\ MapGet(uds.unifiedLookup, key).stateCode = info.state_code
                 /\ TakenFrom(MapGet(uds.unifiedLookup, key), flat, own)
        /\ \A i \in 1..Len(uds.redfInIndex.cities) :
             LET info == uds.redfInIndex.cities[i]
                 key == <<"c", "i", "t", "y", ":">> \o info.key
                 own == {j \in 1..Len(flat) :
                           /\ flat[j].state_code = info.state_code
                           /\ \/ ContainsSegment(flat[j].redfin_city, info.city_name)
                              \/ ContainsSegment(flat[j].census_city, info.city_name)}
             IN  /\ MapHas(uds.unifiedLookup, key)
                 /\ MapGet(uds.unifiedLookup, key).stateCode = info.state_code
                 /\ TakenFrom(MapGet(uds.unifiedLookup, key), flat, own)

\* C25 witness: the flat file holds a record of another state whose county
\* name contains "travis county"; the node of Travis County, TX lists the two
\* Texas zip codes and not that record's.
C25_Witness ==
  /\ uds.pc = "done" /\ uds.run.taxonomyLoaded /\ uds.run.flatLoaded
  /\ \E j \in 1..Len(uds.zipMasterData) :
       /\ uds.zipMasterData[j].state_code # <<"T", "X">>
       /\ ContainsSegment(uds.zipMasterData[j].redfin_county_name,
                          <<"T", "r", "a", "v", "i", "s", " ", "C", "o", "u", "n", "t", "y">>)
  /\ \E i \in 1..Len(uds.unifiedLookup) :
       /\ uds.unifiedLookup[i].data.stateCode = <<"T", "X">>
       /\ Includes(uds.unifiedLookup[i].data.hierarchicalPath, CountyWord)
       /\ Len(uds.unifiedLookup[i].data.childZips) = 2

---------------------------------------------------------------------------
(* Claims about repeated initialize() calls *)

\* the keys under which a build over the taxonomy sets its entries
KeysOfTaxonomy(index) ==
  LET built == buildUnifiedLookup(index, <<>>, <<>>).lookup
  IN  {built[i].key : i \in 1..Len(built)}

\* C26 (as claimed): whenever initialize() has returned, the entries of the
\* unified index all come from one source: all are entries of the real
\* taxonomy or all are entries of the substitute dataset.
C26_SingleSource ==
  uds.pc = "done" =>
    LET keys == {uds.unifiedLookup[i].key : i \in 1..Len(uds.unifiedLookup)}
    IN  \/ keys \subseteq KeysOfTaxonomy(ServedIndex)
        \/ keys \subseteq KeysOfTaxonomy(MockIndex)

---------------------------------------------------------------------------
(* Claims about the level listings *)

\* loc is among the locations a listing returned
Listed(out, loc) == \E i \in 1..Len(out) : out[i] = loc

\* C27 (as claimed): the listings partition the locations of a state: every
\* location other than a state node is returned, for its state code, by
\* exactly one of getCountiesInState, getCitiesInState and getZipsInState,
\* and no location with a zip code is returned by getCitiesInState.
C27_ListingsPartition ==
  uds.isLoaded =>
    \A i \in 1..Len(uds.unifiedLookup) :
      LET loc == uds.unifiedLookup[i].data
          key == uds.unifiedLookup[i].key
          isState == SubSeq(key, 1, 6) = <<"s", "t", "a", "t", "e", ":">>
          inCounties == Listed(getCountiesInState(uds.unifiedLookup, loc.stateCode), loc)
          inCities == Listed(getCitiesInState(uds.unifiedLookup, loc.stateCode), loc)
          inZips == Listed(getZipsInState(uds.unifiedLookup, loc.stateCode), loc)
      IN  ~isState =>
            /\ Cardinality({l \in {"county", "city", "zip"} :
                              \/ l = "county" /\ inCounties
                              \/ l = "city" /\ inCities
                              \/ l = "zip" /\ inZips}) = 1
            /\ loc.zipCode.t = "str" => ~inCities

---------------------------------------------------------------------------
(* Claims about the matching statistics *)

\* C28 (as claimed): on return from loadDataWithCloudflare, whatever the four
\* fetches answered, matchedFeatures + unmatchedFeatures = totalFeatures and
\* 0 <= matchedFeatures <= totalFeatures.
C28_StatsAddUp ==
  ld.pc = "done" =>
    /\ ld.matchedFeatures + ld.unmatchedFeatures = ld.totalFeatures
    /\ 0 <= ld.matchedFeatures
    /\ ld.matchedFeatures <= ld.totalFeatures

---------------------------------------------------------------------------
(* Claims about the DataService cache *)

\* the step ends a load in an error: thrown before the fetch or rethrown
\* after it
DsFailedStep == dataService'.last.event \in {"threw", "failed"}

\* the step begins a load(...) call: it is answered from the cache, throws
\* before the fetch, or issues the fetch
DsBeganStep == dataService'.last.event \in {"hit", "threw", "issued"}

\* the keys of the loads that resolve their path from a state the resolver
\* does not know
DsUnresolvedKeys ==
  UNION {{CensusKey(s, level), FredKey(s), RedfinKey(s)} : s \in DsStates \ DOMAIN ResolverStates, level \in DsLevels}

\* the cache at every step but the miss: a load that fails leaves the
\* cache unchanged and throws an error; a call whose key is cached returns
\* the cached value without fetching; a settled fetch caches what it
\* returns; only clearCache() removes a key, and it removes them all
DsCacheDiscipline ==
  LET e == dataService'.last
  IN  /\ DsFailedStep => dataService'.cache = dataService.cache /\ e.error # ""
      /\ DsBeganStep /\ e.cacheKey \in DOMAIN dataService.cache
           => /\ e.event = "hit"
              /\ e.value = dataService.cache[e.cacheKey]
              /\ dataService'.fetches = dataService.fetches
              /\ dataService'.cache = dataService.cache
      /\ e.event = "stored"
           => e.cacheKey \in DOMAIN dataService'.cache /\ dataService'.cache[e.cacheKey] = e.value
      /\ e.event # "cleared" => DOMAIN dataService.cache \subseteq DOMAIN dataService'.cache
      /\ e.event = "cleared" => DOMAIN dataService'.cache = {}

\* C29: a load that fails leaves the cache unchanged and rethrows the
\* error, so that a later call with the same key is not answered from the
\* cache: a key whose fetch failed is fetched again (as is every key that
\* is not cached and whose path resolves; a load whose state is missing
\* from the resolver's STATES throws again before any fetch); after a
\* successful load every later call with the same key returns the cached
\* value without fetching, until clearCache()
C29_FailedLoadsFetchAgain ==
  [][dataService'.last # dataService.last
       => /\ DsCacheDiscipline
          /\ DsBeganStep /\ dataService'.last.cacheKey \notin DOMAIN dataService.cache
               => /\ dataService'.last.cacheKey \in dataService.failed => dataService'.last.event = "issued"
                  /\ IF dataService'.last.cacheKey \in DsUnresolvedKeys
                     THEN /\ dataService'.last.event = "threw"
                          /\ dataService'.fetches = dataService.fetches
                          /\ dataService'.cache = dataService.cache
                     ELSE /\ dataService'.last.event = "issued"
                          /\ dataService'.fetches = dataService.fetches + 1]_vars

\* a key whose fetch failed was fetched again, stored, and is now answered
\* from the cache
C29_Witness ==
  /\ dataService.last.event = "hit"
  /\ dataService.last.cacheKey \in dataService.failed
  /\ dataService.fetches = 2

---------------------------------------------------------------------------
(* Claims about evictions and reads of the cache *)

\* the entry of state t is the same before and after the step
SameEntry(t) ==
  /\ MapHas(stateIndexCache', t) <=> MapHas(stateIndexCache, t)
  /\ MapHas(stateIndexCache, t) => MapGet(stateIndexCache', t) = MapGet(stateIndexCache, t)

\* C30: clearStateCache(s) removes the entry of s and leaves the entry of
\* every other state unchanged; clearStateCache() leaves the cache empty;
\* a step of getCacheStats, getLoadedStates, getRedfinId, getTractsInZip,
\* getZipsInCounty or checkStateCoverage leaves the cache unchanged
C30_TouchOnlyWhatTheyName ==
  [][/\ \A s \in States :
          clearStateCache(s) => ~MapHas(stateIndexCache', s) /\ \A t \in States \ {s} : SameEntry(t)
     /\ clearStateCache("") => stateIndexCache' = <<>>
     /\ lk' # lk => stateIndexCache' = stateIndexCache]_vars

\* NV and CA were both loaded, NV was evicted alone, and getCacheStats then
\* reported the one entry left
C30_Witness ==
  /\ MapKeys(stateIndexCache) = <<"CA">>
  /\ \A l \in Levels : fetchCount["NV"][l] = 1 /\ fetchCount["CA"][l] = 1
  /\ calls["c1"].pc = "done"
  /\ lk.op = "getCacheStats"
  /\ lk.out.cachedStates = 1

=============================================================================
